---- MODULE Spec2Model ----
(***************************************************************************)
(* Coordinated planning engine of shared_resources_planning.py:            *)
(*   - the inner ADMM loop (_run_operational_planning_problem) with its    *)
(*     consensus store, dual update and convergence test;                  *)
(*   - the outer Benders loop (_run_planning_problem) with the master      *)
(*     problem of _build_master_problem and the cuts of _add_benders_cut.  *)
(*                                                                         *)
(* Numbers.  Powers are integers in a fixed-point unit; the rounding grid  *)
(* of round(x, ERROR_PRECISION) is RoundUnit of these units, so a raw      *)
(* value may lie between two grid points.  Tolerances are rationals        *)
(* [num, den]; comparisons are cross-multiplied.  The (year, day, instant) *)
(* triple of the consensus store is flattened into one index, Periods.     *)
(* The NLP solver is opaque: a solve returns any element of SolverOutputs. *)
(***************************************************************************)
EXTENDS Integers, Sequences, FiniteSets, TLC

\* ---------------------------------------------------------------- bounds
NumNodes == 1
NumPeriods == 1
MaxVal == 2
MaxAdmmIters == 3
NumDsos == 2
NumInstants == 2
NumScenarios == 2

\* ---------------------------------------------------- constants
RoundUnit == 2
RelTolNum == 1
RelTolDen == 10
PenaltyFactorNum == 1
PenaltyFactorDen == 10

Nodes == 1..NumNodes
Periods == 1..NumPeriods
Roles == {"tso", "dso"}
Quantities == {"pf_p", "pf_q", "ess_p", "ess_q"}

\* ---------------------------------------------------------------- helpers
Abs(x) == IF x < 0 THEN -x ELSE x

Max(a, b) == IF a >= b THEN a ELSE b

\* round(x, ERROR_PRECISION): nearest grid point, ties to the even one
Round(x) ==
    LET q == x \div RoundUnit
        r == x % RoundUnit
    IN  IF 2 * r < RoundUnit THEN q * RoundUnit
        ELSE IF 2 * r > RoundUnit THEN (q + 1) * RoundUnit
        ELSE IF q % 2 = 0 THEN q * RoundUnit ELSE (q + 1) * RoundUnit

\* math.isclose(a, b, rel_tol = relNum/relDen, abs_tol = absTol)
IsClose(a, b, relNum, relDen, absTol) ==
    \/ Abs(a - b) * relDen <= relNum * Max(Abs(a), Abs(b))
    \/ Abs(a - b) <= absTol

RECURSIVE SumOver(_, _)
SumOver(S, f) ==
    IF S = {} THEN 0
    ELSE LET x == CHOOSE y \in S : TRUE
         IN  f[x] + SumOver(S \ {x}, f)

Index == Nodes \X Periods

ZeroQuad == [c \in Quantities |-> 0]

ZeroField == [n \in Nodes |-> [t \in Periods |-> ZeroQuad]]

\* create_admm_variables: every slot of both roles starts at 0.0
ZeroStore == [r \in Roles |-> ZeroField]

\* what one solve may return: nothing flows, or one quantity of one slot is v
SolverOutputs ==
    {ZeroField} \cup
    { [ZeroField EXCEPT ![n][t][c] = v] :
        n \in Nodes, t \in Periods, c \in Quantities, v \in 1..MaxVal }

\* what the DSOs' baseline solves may return: the same interface flow in
\* every slot, none of it or one unit of it, and an idle shared ESS
BaselineOutputs ==
    { [n \in Nodes |-> [t \in Periods |-> [ZeroQuad EXCEPT !["pf_p"] = a, !["pf_q"] = b]]] :
        a \in 0..1, b \in 0..1 }

\* ------------------------------------------------------------ parameters
\* params.admm: tol (a rational), rho per block and role, num_max_iters
TolSet == { [num |-> 89, den |-> 200], [num |-> 1, den |-> 1] }

\* rho[block].tso is the TSO's penalty, rho[block].dso[n] the one of DSO n
RhoSet == { [pf  |-> [tso |-> 1, dso |-> [n \in Nodes |-> 1 + n]],
             ess |-> [tso |-> 2, dso |-> [n \in Nodes |-> n]]] }

AdmmParamSet ==
    [tol : TolSet, rho : RhoSet, num_max_iters : 1..MaxAdmmIters,
     adaptive_penalty : BOOLEAN]

VARIABLES
    params,                    \* planning_problem.params.admm
    admm_pc,                   \* position in _run_operational_planning_problem
    iter,                      \* the loop variable of the ADMM for-loop
    convergence,               \* its convergence flag
    consensus_vars,            \* [role][node][period][quantity]
    consensus_vars_prev_iter,
    dual_vars,
    tso_model,                 \* [req, dual, out]: fixed inputs and last solution
    dso_models,
    solver_outputs,            \* the solutions the NLP solver may return
    baseline_outputs,          \* the solutions the DSOs' baseline solve may return
    subproblem_outputs,        \* the bounds and sensitivities a subproblem may give
    solver_statuses,           \* the statuses a solve of the ADMM loop may end with
    penalties,                 \* rho_pf and rho_ess fixed in the models, rationals
    error_logged,              \* "[ERROR] Network ... did not converge!" was printed
    results_written,           \* the results workbook was written
    \* ---- _read_planning_problem ----
    read_pc,                   \* position in _read_planning_problem
    input_files,               \* what the input files hold
    network_params,            \* the NetworkParameters object being filled
    diagnostics,               \* the [ERROR] lines printed, in order
    exit_code,                 \* the code the process exited with, "none" if it runs
    \* ---- one round of DSO solves, the DSOs taken in any order ----
    round_store,               \* [v, tso, dso, dual_tso, dual_dso][dso]: the slots of the DSOs
    round_models,              \* [dso] -> [pc, vmag, req, dual, out]: models[node_id]
    round_solver,              \* which function of a model's fixed values the solver is
    round_order,               \* history: the DSOs in the order their solve ended
    round_start,               \* history: round_store and round_models when the round began
    round_pc,                  \* "solving", or "updated" after step 3.1
    \* ---- _run_operational_planning_without_coordination ----
    nc_pc,                     \* position in the function
    nc_interface_pf,           \* interface_pf[node_id][instant]: 'p' and 'q'
    nc_dso_models,             \* the nodes whose DSO model was built and solved, in order
    nc_tso_model,              \* pc, qc fixed per [node][scenario][instant] (the nodes
                               \* in order, as far as the loop got), and solved
    nc_p,                      \* the local variable p of the function, 0 while unbound
    divisors,                  \* the divisors of the augmented objectives
    iter_start_vars,           \* history: consensus_vars when the iteration began
    \* ---- _run_planning_problem ----
    data,                      \* the planning data read from the input files
    benders_params,            \* planning_problem.params.benders
    benders_pc,                \* position in _run_planning_problem
    benders_iter,              \* its iter
    benders_convergence,       \* its convergence
    lower_bound,               \* in 1/DaysPerYear cost units
    upper_bound,               \* in 1/DaysPerYear cost units
    candidate_solution,        \* [investment, total_capacity][s|e][node][year]
    sensitivities,             \* [s|e][year][node], of the last subproblem
    benders_cuts,              \* master_problem_model.benders_cuts
    lower_bound_evolution,
    upper_bound_evolution,
    shared_ess                 \* capacities installed in the networks

\* what a run is given and never writes
read_vars == <<read_pc, input_files, network_params, diagnostics, exit_code>>

round_vars == <<round_store, round_models, round_solver, round_order, round_start,
                round_pc>>

nc_vars == <<nc_pc, nc_interface_pf, nc_dso_models, nc_tso_model, nc_p>>

run_inputs == <<solver_outputs, baseline_outputs, subproblem_outputs, solver_statuses,
                read_vars, round_vars, nc_vars>>

admm_vars == <<params, admm_pc, iter, convergence, consensus_vars,
               consensus_vars_prev_iter, dual_vars, tso_model, dso_models,
               run_inputs, divisors, penalties, error_logged, results_written, iter_start_vars>>

benders_rest == <<data, benders_params, benders_iter,
                  benders_convergence, lower_bound, upper_bound,
                  candidate_solution, sensitivities, benders_cuts,
                  lower_bound_evolution, upper_bound_evolution, shared_ess>>

benders_vars == <<benders_pc, benders_rest>>

vars == <<admm_vars, benders_vars>>

\* everything but the reading of the files
run_vars == <<params, admm_pc, iter, convergence, consensus_vars,
              consensus_vars_prev_iter, dual_vars, tso_model, dso_models,
              solver_outputs, baseline_outputs, subproblem_outputs, solver_statuses,
              divisors, penalties, error_logged, results_written, iter_start_vars,
              benders_vars, round_vars, nc_vars>>

\* ------------------------------------------------------------- ADMM: code
\* variant: the snapshot is not taken, 'previous' keeps what it held
UpdatePreviousConsensusVariables_NotTaken(cv) == consensus_vars_prev_iter

\* _update_previous_consensus_variables: previous := current, slot by slot
UpdatePreviousConsensusVariables(cv) ==
    [r \in Roles |-> [n \in Nodes |-> [t \in Periods |->
        [c \in Quantities |-> cv[r][n][t][c]]]]]

\* variant: the .tso slots are not rewritten from the TSO model
PulledConsensus_StaleTso(tso, dso) == [tso |-> consensus_vars.tso, dso |-> dso.out]

\* The values _update_interface_power_flow_variables and
\* _update_shared_energy_storage_variables read from the models: the .tso
\* slots from the TSO model, the .dso slots from each DSO's model.
PulledConsensus(tso, dso) == [tso |-> tso.out, dso |-> dso.out]

\* error = x.tso - x.dso of the freshly written values
Residual(cv, n, t, c) == cv.tso[n][t][c] - cv.dso[n][t][c]

\* variant: dual.tso.p is incremented like the other three
InterfaceDualIncrement_AllFour(rho, cv, r, n, t, c) ==
    IF r = "tso"
    THEN rho.pf.tso * Residual(cv, n, t, c)
    ELSE rho.pf.dso[n] * (-Residual(cv, n, t, c))

\* "Update Lambdas" of _update_interface_power_flow_variables: dual.tso.p is
\* not incremented, dual.tso.q, dual.dso.p and dual.dso.q are
InterfaceDualIncrement(rho, cv, r, n, t, c) ==
    IF r = "tso"
    THEN IF c = "pf_q" THEN rho.pf.tso * Residual(cv, n, t, c) ELSE 0
    ELSE rho.pf.dso[n] * (-Residual(cv, n, t, c))

\* variant: the DSO's dual is incremented with the TSO's penalty
SharedEssDualIncrement_TsoPenaltyForBoth(rho, cv, r, n, t, c) ==
    IF r = "tso"
    THEN rho.ess.tso * Residual(cv, n, t, c)
    ELSE rho.ess.tso * (-Residual(cv, n, t, c))

\* "Update dual variables Shared ESS" of _update_shared_energy_storage_variables
SharedEssDualIncrement(rho, cv, r, n, t, c) ==
    IF r = "tso"
    THEN rho.ess.tso * Residual(cv, n, t, c)
    ELSE rho.ess.dso[n] * (-Residual(cv, n, t, c))

DualIncrement(rho, cv, r, n, t, c) ==
    IF c \in {"pf_p", "pf_q"}
    THEN InterfaceDualIncrement(rho, cv, r, n, t, c)
    ELSE SharedEssDualIncrement(rho, cv, r, n, t, c)

UpdatedDuals(rho, cv, dv) ==
    [r \in Roles |-> [n \in Nodes |-> [t \in Periods |->
        [c \in Quantities |-> dv[r][n][t][c] + DualIncrement(rho, cv, r, n, t, c)]]]]

\* ---- convergence test ----
\* the four addends of one slot of one block in _consensus_convergence
ConsensusAddends(cv, n, t, cp, cq) ==
      Abs(Round(cv.tso[n][t][cp]) - Round(cv.dso[n][t][cp]))
    + Abs(Round(cv.tso[n][t][cq]) - Round(cv.dso[n][t][cq]))
    + Abs(Round(cv.dso[n][t][cp]) - Round(cv.tso[n][t][cp]))
    + Abs(Round(cv.dso[n][t][cq]) - Round(cv.tso[n][t][cq]))

ConsensusSum(cv) ==
    SumOver(Index, [i \in Index |->
          ConsensusAddends(cv, i[1], i[2], "pf_p", "pf_q")
        + ConsensusAddends(cv, i[1], i[2], "ess_p", "ess_q")])

\* num_elems: 4 per slot for the interface flows and 4 for the shared ESS
NumElems == SumOver(Index, [i \in Index |-> 4 + 4])

\* the four addends of one slot of one block in _stationary_convergence
StationaryAddends(cv, pv, rho_tso, rho_dso, n, t, cp, cq) ==
      rho_tso * Abs(Round(cv.tso[n][t][cp]) - Round(pv.tso[n][t][cp]))
    + rho_tso * Abs(Round(cv.tso[n][t][cq]) - Round(pv.tso[n][t][cq]))
    + rho_dso * Abs(Round(cv.dso[n][t][cp]) - Round(pv.dso[n][t][cp]))
    + rho_dso * Abs(Round(cv.dso[n][t][cq]) - Round(pv.dso[n][t][cq]))

StationarySum(cv, pv, rho) ==
    SumOver(Index, [i \in Index |->
          StationaryAddends(cv, pv, rho.pf.tso, rho.pf.dso[i[1]], i[1], i[2], "pf_p", "pf_q")
        + StationaryAddends(cv, pv, rho.ess.tso, rho.ess.dso[i[1]], i[1], i[2], "ess_p", "ess_q")])

\* variant: isclose without the absolute tolerance
ToleranceRule_RelativeOnly(sum_abs, num_elems, tol) ==
    IF sum_abs * tol.den > tol.num * num_elems
    THEN IsClose(sum_abs * tol.den, tol.num * num_elems, RelTolNum, RelTolDen, 0)
    ELSE TRUE

\* the closing test of both functions:
\*   if sum_abs > tol * num_elems:
\*       if not isclose(sum_abs, tol * num_elems, rel_tol=REL, abs_tol=tol): return False
\*   return True
\* with tol = num/den, both sides multiplied by den
ToleranceRule(sum_abs, num_elems, tol) ==
    IF sum_abs * tol.den > tol.num * num_elems
    THEN IsClose(sum_abs * tol.den, tol.num * num_elems, RelTolNum, RelTolDen, tol.num)
    ELSE TRUE

ConsensusConvergence(cv, p) == ToleranceRule(ConsensusSum(cv), NumElems, p.tol)

StationaryConvergence(cv, pv, p) ==
    ToleranceRule(StationarySum(cv, pv, p.rho), NumElems, p.tol)

\* variant: only the stationarity test decides
CheckAdmmConvergence_StationaryOnly(cv, pv, p) ==
    IF StationaryConvergence(cv, pv, p) THEN TRUE ELSE FALSE

CheckAdmmConvergence(cv, pv, p) ==
    IF ConsensusConvergence(cv, p)
    THEN IF StationaryConvergence(cv, pv, p) THEN TRUE ELSE FALSE
    ELSE FALSE

\* ---------------------------------------------------------- ADMM: actions
\* a penalty as a rational
Rational(k) == [num |-> k, den |-> 1]

\* x * (1 + ADMM_ADAPTIVE_PENALTY_FACTOR)
Increased(x) ==
    [num |-> x.num * (PenaltyFactorDen + PenaltyFactorNum), den |-> x.den * PenaltyFactorDen]

\* models that are not built have no penalties
NoPenalties ==
    [ tso |-> [pf |-> Rational(0), ess |-> Rational(0)],
      dso |-> [n \in Nodes |-> [pf |-> Rational(0), ess |-> Rational(0)]] ]

\* rho_pf.fix(params.rho['pf'][name]), rho_ess.fix(params.rho['ess'][name])
\* of update_transmission_model_to_admm and update_distribution_models_to_admm
ConfiguredPenalties(rho) ==
    [ tso |-> [pf |-> Rational(rho.pf.tso), ess |-> Rational(rho.ess.tso)],
      dso |-> [n \in Nodes |-> [pf |-> Rational(rho.pf.dso[n]),
                                 ess |-> Rational(rho.ess.dso[n])]] ]

\* variant: with adaptive_penalty each penalty grows from its own value
SolvePenalties_EachFromItself(p, rho_pf, rho_ess, fixed) ==
    IF p.adaptive_penalty
    THEN [pf |-> Increased(fixed.pf), ess |-> Increased(fixed.ess)]
    ELSE [pf |-> Rational(rho_pf), ess |-> Rational(rho_ess)]

\* the penalties a coordination solve fixes: the configured ones, or with
\* adaptive_penalty the model's rho_pf times (1 + ADMM_ADAPTIVE_PENALTY_FACTOR)
\* for both
SolvePenalties(p, rho_pf, rho_ess, fixed) ==
    IF p.adaptive_penalty
    THEN [pf |-> Increased(fixed.pf), ess |-> Increased(fixed.pf)]
    ELSE [pf |-> Rational(rho_pf), ess |-> Rational(rho_ess)]

\* a network's model: the requests and duals fixed for its last solve, its
\* solution, and (history) the iteration of that solve, -1 for the baseline
NoModel == [req |-> ZeroField, dual |-> ZeroField, out |-> ZeroField, at |-> -1]

\* pe.value(model.objective) of a baseline solve
BaselineObjectives == 0..1

\* "if rating == 0.0: rating = 1.00"
Rating(s) == IF s = 0 THEN 1 ELSE s

\* an objective nothing was divided into yet
NoDivisors(d) ==
    [ tso |-> [ obj |-> [y \in 1..Len(d.years) |-> 1],
                pf  |-> [n \in Nodes |-> [t \in Periods |-> [pf_p |-> 1, pf_q |-> 1]]],
                ess |-> [n \in Nodes |-> [y \in 1..Len(d.years) |-> 1]] ],
      dso |-> [ obj |-> [n \in Nodes |-> [y \in 1..Len(d.years) |-> 1]],
                pf  |-> [n \in Nodes |-> [t \in Periods |-> [pf_p |-> 1, pf_q |-> 1]]],
                ess |-> [n \in Nodes |-> [y \in 1..Len(d.years) |-> 1]] ] ]

\* update_distribution_models_to_admm: the objective is divided by
\* max(abs(init_of_value), 1.00), the interface residuals by abs(init_p) and
\* abs(init_q), the shared-ESS residuals by 2 * rating
DsoDivisors(d, od, init_of_value, ess) ==
    [ obj |-> [n \in Nodes |-> [y \in 1..Len(d.years) |->
                 Max(Abs(IF ess.s[n][y] = 0 THEN 1 ELSE init_of_value), 1)]],
      pf  |-> [n \in Nodes |-> [t \in Periods |->
                 [pf_p |-> Abs(od[n][t]["pf_p"]), pf_q |-> Abs(od[n][t]["pf_q"])]]],
      ess |-> [n \in Nodes |-> [y \in 1..Len(d.years) |-> 2 * Rating(ess.s[n][y])]] ]

\* update_transmission_model_to_admm: the objective is divided by
\* abs(init_of_value), the interface residuals by abs(init_p) and abs(init_q)
\* of the .dso slots, the shared-ESS residuals by 2 * rating
TsoDivisors(d, od, init_of_value, ess) ==
    [ obj |-> [y \in 1..Len(d.years) |-> Abs(init_of_value)],
      pf  |-> [n \in Nodes |-> [t \in Periods |->
                 [pf_p |-> Abs(od[n][t]["pf_p"]), pf_q |-> Abs(od[n][t]["pf_q"])]]],
      ess |-> [n \in Nodes |-> [y \in 1..Len(d.years) |-> 2 * Rating(ess.s[n][y])]] ]

\* expr / 0.0 raises ZeroDivisionError
DsoDividesByZero(dv) ==
    \/ \E n \in Nodes, y \in DOMAIN dv.obj[1] : dv.obj[n][y] = 0 \/ dv.ess[n][y] = 0
    \/ \E n \in Nodes, t \in Periods : dv.pf[n][t].pf_p = 0 \/ dv.pf[n][t].pf_q = 0

TsoDividesByZero(dv) ==
    \/ \E y \in DOMAIN dv.obj : dv.obj[y] = 0
    \/ \E n \in Nodes, y \in DOMAIN dv.obj : dv.ess[n][y] = 0
    \/ \E n \in Nodes, t \in Periods : dv.pf[n][t].pf_p = 0 \/ dv.pf[n][t].pf_q = 0

\* "0. Initialization": create_admm_variables, then the baseline solves of
\* create_distribution_networks_models and create_transmission_network_model,
\* which write the .dso and .tso slots of the consensus store, each followed
\* by the construction of the augmented objective.  An exception of that
\* construction leaves the run, and the planning loop around it if any.
AdmmInitialize ==
    /\ admm_pc = "init"
    /\ \E od \in baseline_outputs, ot \in solver_outputs,
          dso_of \in BaselineObjectives, tso_of \in BaselineObjectives :
        LET dd == DsoDivisors(data, od, dso_of, shared_ess)
            td == TsoDivisors(data, od, tso_of, shared_ess)
        IN  IF DsoDividesByZero(dd)
            THEN /\ dso_models' = [NoModel EXCEPT !.out = od]
                 /\ tso_model' = NoModel
                 /\ consensus_vars' = [tso |-> ZeroField, dso |-> od]
                 /\ divisors' = [NoDivisors(data) EXCEPT !.dso = dd]
                 /\ admm_pc' = "raised"
            ELSE /\ dso_models' = [NoModel EXCEPT !.out = od]
                 /\ tso_model' = [NoModel EXCEPT !.out = ot]
                 /\ consensus_vars' = [tso |-> ot, dso |-> od]
                 /\ divisors' = [tso |-> td, dso |-> dd]
                 /\ admm_pc' = IF TsoDividesByZero(td) THEN "raised" ELSE "tso_solve"
    /\ iter_start_vars' = consensus_vars'
    /\ penalties' = ConfiguredPenalties(params.rho)
    /\ benders_pc' = IF admm_pc' = "raised" /\ benders_pc = "subproblem"
                     THEN "raised" ELSE benders_pc
    /\ consensus_vars_prev_iter' = ZeroStore
    /\ dual_vars' = ZeroStore
    /\ convergence' = FALSE
    /\ iter' = 0
    /\ UNCHANGED <<benders_rest, run_inputs, params, error_logged, results_written>>

\* update_transmission_coordination_model_and_solve: fix the requests to the
\* .dso slots and the duals to the TSO's duals, then solve
TsoSolve ==
    /\ admm_pc = "tso_solve"
    /\ penalties' = [penalties EXCEPT !.tso = SolvePenalties(params, params.rho.pf.tso,
                                                            params.rho.ess.tso, @)]
    /\ \E o \in solver_outputs :
        tso_model' = [req |-> consensus_vars.dso, dual |-> dual_vars.tso,
                      out |-> o, at |-> iter]
    /\ \E status \in solver_statuses :
        error_logged' = (error_logged \/ status = "error")
    /\ admm_pc' = "tso_update"
    /\ UNCHANGED <<benders_vars, run_inputs, divisors, results_written, iter_start_vars, params, iter, convergence, consensus_vars,
                   consensus_vars_prev_iter, dual_vars, dso_models>>

\* _update_admm_consensus_variables: snapshot, pull both models, update duals
UpdateAdmmConsensusVariables ==
    /\ consensus_vars_prev_iter' = UpdatePreviousConsensusVariables(consensus_vars)
    /\ consensus_vars' = PulledConsensus(tso_model, dso_models)
    /\ dual_vars' = UpdatedDuals(params.rho, consensus_vars', dual_vars)

\* "2.1 Update ADMM CONSENSUS variables"
UpdateAfterTso ==
    /\ admm_pc = "tso_update"
    /\ UpdateAdmmConsensusVariables
    /\ admm_pc' = "tso_check"
    /\ UNCHANGED <<benders_vars, run_inputs, divisors, penalties, error_logged, results_written, iter_start_vars, params, iter, convergence, tso_model, dso_models>>

\* variant: the test after the TSO step is made from the second iteration on
TsoCheck_FromSecondIteration ==
    /\ admm_pc = "tso_check"
    /\ iter > 0
    /\ convergence' = CheckAdmmConvergence(consensus_vars, consensus_vars_prev_iter, params)
    /\ admm_pc' = IF convergence' THEN "done" ELSE "dso_solve"
    /\ UNCHANGED <<benders_vars, run_inputs, divisors, penalties, error_logged, results_written, iter_start_vars, params, iter, consensus_vars, consensus_vars_prev_iter,
                   dual_vars, tso_model, dso_models>>

\* "2.3 STOPPING CRITERIA evaluation", guarded by iter > 1
TsoCheck ==
    /\ admm_pc = "tso_check"
    /\ iter > 1
    /\ convergence' = CheckAdmmConvergence(consensus_vars, consensus_vars_prev_iter, params)
    /\ admm_pc' = IF convergence' THEN "done" ELSE "dso_solve"
    /\ UNCHANGED <<benders_vars, run_inputs, divisors, penalties, error_logged, results_written, iter_start_vars, params, iter, consensus_vars, consensus_vars_prev_iter,
                   dual_vars, tso_model, dso_models>>

TsoCheckSkipped ==
    /\ admm_pc = "tso_check"
    /\ ~(iter > 1)
    /\ admm_pc' = "dso_solve"
    /\ UNCHANGED <<benders_vars, run_inputs, divisors, penalties, error_logged, results_written, iter_start_vars, params, iter, convergence, consensus_vars,
                   consensus_vars_prev_iter, dual_vars, tso_model, dso_models>>

\* update_distribution_coordination_models_and_solve: for every DSO fix the
\* requests to the .tso slots and the duals to the DSO's duals, then solve
DsoSolve ==
    /\ admm_pc = "dso_solve"
    /\ penalties' = [penalties EXCEPT !.dso = [n \in Nodes |->
                        SolvePenalties(params, params.rho.pf.dso[n],
                                       params.rho.ess.dso[n], @[n])]]
    /\ \E o \in solver_outputs :
        dso_models' = [req |-> consensus_vars.tso, dual |-> dual_vars.dso,
                       out |-> o, at |-> iter]
    /\ \E status \in solver_statuses :
        error_logged' = (error_logged \/ status = "error")
    /\ admm_pc' = "dso_update"
    /\ UNCHANGED <<benders_vars, run_inputs, divisors, results_written, iter_start_vars, params, iter, convergence, consensus_vars,
                   consensus_vars_prev_iter, dual_vars, tso_model>>

\* "3.1 Update ADMM CONSENSUS variables"
UpdateAfterDso ==
    /\ admm_pc = "dso_update"
    /\ UpdateAdmmConsensusVariables
    /\ admm_pc' = "dso_check"
    /\ UNCHANGED <<benders_vars, run_inputs, divisors, penalties, error_logged, results_written, iter_start_vars, params, iter, convergence, tso_model, dso_models>>

\* "3.3 STOPPING CRITERIA evaluation", then the end of the loop body: the
\* for-loop over range(num_max_iters) takes its next value or is exhausted
DsoCheck ==
    /\ admm_pc = "dso_check"
    /\ convergence' = CheckAdmmConvergence(consensus_vars, consensus_vars_prev_iter, params)
    /\ IF convergence'
       THEN admm_pc' = "done" /\ iter' = iter /\ UNCHANGED iter_start_vars
       ELSE IF iter + 1 < params.num_max_iters
            THEN /\ admm_pc' = "tso_solve"
                 /\ iter' = iter + 1
                 /\ iter_start_vars' = consensus_vars
            ELSE admm_pc' = "done" /\ iter' = iter /\ UNCHANGED iter_start_vars
    /\ UNCHANGED <<benders_vars, run_inputs, divisors, penalties, error_logged, results_written, params, consensus_vars, consensus_vars_prev_iter,
                   dual_vars, tso_model, dso_models>>

\* run_operational_planning called on its own, print_results = True: the
\* run has returned and write_operational_planning_results_to_excel is called
WriteOperationalResults ==
    /\ admm_pc = "done"
    /\ benders_pc = "none"
    /\ results_written' = TRUE
    /\ admm_pc' = "returned"
    /\ UNCHANGED <<benders_vars, run_inputs, divisors, penalties, error_logged,
                   iter_start_vars, params, iter, convergence, consensus_vars,
                   consensus_vars_prev_iter, dual_vars, tso_model, dso_models>>

\* a call of _update_previous_consensus_variables on its own: the first and
\* the second of two calls with no write between them
SnapshotCall ==
    /\ admm_pc \in {"snapshot", "snapshot_once"}
    /\ consensus_vars_prev_iter' = UpdatePreviousConsensusVariables(consensus_vars)
    /\ admm_pc' = IF admm_pc = "snapshot" THEN "snapshot_once" ELSE "snapshot_twice"
    /\ UNCHANGED <<benders_vars, run_inputs, divisors, penalties, error_logged,
                   results_written, iter_start_vars, params, iter, convergence,
                   consensus_vars, dual_vars, tso_model, dso_models>>

AdmmStep ==
    \/ AdmmInitialize
    \/ TsoSolve
    \/ UpdateAfterTso
    \/ TsoCheck
    \/ TsoCheckSkipped
    \/ DsoSolve
    \/ UpdateAfterDso
    \/ DsoCheck

\* -------------------------------------------------- master problem: code
DaysPerYear == 365

Min(a, b) == IF a <= b THEN a ELSE b

RECURSIVE Pow(_, _)
Pow(b, k) == IF k = 0 THEN 1 ELSE b * Pow(b, k - 1)

\* round(a / b) of Python 3 for a >= 0, b > 0: nearest integer, ties to even
RoundDiv(a, b) ==
    LET q == a \div b
        r == a % b
    IN  IF 2 * r < b THEN q
        ELSE IF 2 * r > b THEN q + 1
        ELSE IF q % 2 = 0 THEN q ELSE q + 1

\* model.years = range(len(planning_problem.years)), counted from 1 here
YearIdx(d) == 1..Len(d.years)

\* tcal_norm = round(shared_energy_storage.t_cal / num_years)
TcalNorm(d, e, y) == RoundDiv(d.t_cal[y][e], d.years[y].num_years)

\* variant: an investment counts from its year to the end of the horizon
Window_WholeHorizon(d, e, y) == { x \in YearIdx(d) : y <= x }

\* range(y, min(y + tcal_norm, len(years))): the years an investment of
\* year y counts in
Window(d, e, y) ==
    { x \in YearIdx(d) : y <= x /\ x < Min(y + TcalNorm(d, e, y), Len(d.years) + 1) }

\* total_s_capacity_per_year[x] / total_e_capacity_per_year[x]
Rated(d, inv, e, x) ==
    LET from == { y \in YearIdx(d) : x \in Window(d, e, y) }
    IN  SumOver(from, [y \in from |-> inv[e][y]])

RatedCapacity(d, inv) == [e \in Nodes |-> [x \in YearIdx(d) |-> Rated(d, inv, e, x)]]

\* annualization = 1 / (1 + discount_factor) ** (int(year) - int(years[0])),
\* as a numerator over the common denominator CostDen
CostDen(d) ==
    Pow(1 + d.discount_factor, d.years[Len(d.years)].label - d.years[1].label)

Annualization(d, y) ==
    Pow(1 + d.discount_factor, d.years[Len(d.years)].label - d.years[y].label)

\* investment_cost_total (times CostDen)
InvestmentCost(d, x) ==
    SumOver(YearIdx(d), [y \in YearIdx(d) |->
        Annualization(d, y) *
            SumOver(Nodes, [e \in Nodes |->
                x.s[e][y] * d.cost_s[y] + x.e[e][y] * d.cost_e[y]])])

\* variant: the investment cost is not limited by the budget
MasterFeasible_NoBudget(d, x) ==
    LET s_rated == RatedCapacity(d, x.s)
        e_rated == RatedCapacity(d, x.e)
    IN  /\ \A e \in Nodes, y \in YearIdx(d) :
            /\ e_rated[e][y] <= d.max_capacity
            /\ s_rated[e][y] >= e_rated[e][y] * d.min_pe_factor
            /\ s_rated[e][y] <= e_rated[e][y] * d.max_pe_factor

\* the constraints of _build_master_problem on the investments x
MasterFeasible(d, x) ==
    LET s_rated == RatedCapacity(d, x.s)
        e_rated == RatedCapacity(d, x.e)
    IN  /\ \A e \in Nodes, y \in YearIdx(d) :
            /\ e_rated[e][y] <= d.max_capacity
            /\ s_rated[e][y] >= e_rated[e][y] * d.min_pe_factor
            /\ s_rated[e][y] <= e_rated[e][y] * d.max_pe_factor
        /\ InvestmentCost(d, x) <= d.budget * CostDen(d)

\* model.alpha.setlb(-budget * 1e3), in 1/DaysPerYear units
AlphaLowerBound(d) == -(d.budget * 1000) * DaysPerYear

\* sensitivity_s / sensitivity_e of _add_benders_cut, times DaysPerYear:
\* the sum over the days of sensitivities[k][year][node] * days[day] / 365
DayWeightedSensitivity(d, sens, k, e, y) ==
    SumOver(DOMAIN d.days, [day \in DOMAIN d.days |-> sens[k][y][e] * d.days[day]])

\* variant: the cut is centred on the candidate's investments instead of
\* its total capacities
BendersCut_AtInvestment(d, ub, sens, cand) ==
    [ upper_bound |-> ub,
      sensitivity_s |-> [e \in Nodes |-> [y \in YearIdx(d) |->
                            DayWeightedSensitivity(d, sens, "s", e, y)]],
      sensitivity_e |-> [e \in Nodes |-> [y \in YearIdx(d) |->
                            DayWeightedSensitivity(d, sens, "e", e, y)]],
      s_hat |-> [e \in Nodes |-> [y \in YearIdx(d) |-> cand.investment.s[e][y]]],
      e_hat |-> [e \in Nodes |-> [y \in YearIdx(d) |-> cand.investment.e[e][y]]] ]

\* the constraint _add_benders_cut appends: alpha >= benders_cut
BendersCut(d, ub, sens, cand) ==
    [ upper_bound |-> ub,
      sensitivity_s |-> [e \in Nodes |-> [y \in YearIdx(d) |->
                            DayWeightedSensitivity(d, sens, "s", e, y)]],
      sensitivity_e |-> [e \in Nodes |-> [y \in YearIdx(d) |->
                            DayWeightedSensitivity(d, sens, "e", e, y)]],
      s_hat |-> [e \in Nodes |-> [y \in YearIdx(d) |-> cand.total_capacity.s[e][y]]],
      e_hat |-> [e \in Nodes |-> [y \in YearIdx(d) |-> cand.total_capacity.e[e][y]]] ]

\* the right-hand side of a cut at rated capacities (in 1/DaysPerYear units)
CutValue(d, cut, s_rated, e_rated) ==
    cut.upper_bound
    + SumOver(Nodes \X YearIdx(d), [i \in Nodes \X YearIdx(d) |->
          cut.sensitivity_s[i[1]][i[2]] * (s_rated[i[1]][i[2]] - cut.s_hat[i[1]][i[2]])
        + cut.sensitivity_e[i[1]][i[2]] * (e_rated[i[1]][i[2]] - cut.e_hat[i[1]][i[2]])])

RECURSIVE MaxOf(_)
MaxOf(S) ==
    LET x == CHOOSE y \in S : TRUE
    IN  IF S = {x} THEN x ELSE Max(x, MaxOf(S \ {x}))

RECURSIVE MinOf(_)
MinOf(S) ==
    LET x == CHOOSE y \in S : TRUE
    IN  IF S = {x} THEN x ELSE Min(x, MinOf(S \ {x}))

\* the least alpha the bound and the cuts allow at investments x
AlphaAt(d, cuts, x) ==
    LET s_rated == RatedCapacity(d, x.s)
        e_rated == RatedCapacity(d, x.e)
    IN  MaxOf({AlphaLowerBound(d)} \cup
              { CutValue(d, cuts[k], s_rated, e_rated) : k \in DOMAIN cuts })

\* obj = investment_cost + alpha, times DaysPerYear * CostDen
MasterObjective(d, cuts, x) ==
    DaysPerYear * InvestmentCost(d, x) + CostDen(d) * AlphaAt(d, cuts, x)

\* ------------------------------------------------------------------ bound
MaxInv == 2

\* the investments the master may choose, on a grid
InvestmentGrid(d) ==
    [s : [Nodes -> [YearIdx(d) -> 0..MaxInv]], e : [Nodes -> [YearIdx(d) -> 0..MaxInv]]]

\* shared_ess_data.optimize(master_problem_model): the optimal investments
MasterOptima(d, cuts) ==
    LET F == { x \in InvestmentGrid(d) : MasterFeasible(d, x) }
        val == [x \in F |-> MasterObjective(d, cuts, x)]
        best == MinOf({ val[x] : x \in F })
    IN  { x \in F : val[x] = best }

\* get_candidate_solution: absolute values of the master's variables
GetCandidateSolution(d, x) ==
    [ investment |->
        [ s |-> [e \in Nodes |-> [y \in YearIdx(d) |-> Abs(x.s[e][y])]],
          e |-> [e \in Nodes |-> [y \in YearIdx(d) |-> Abs(x.e[e][y])]] ],
      total_capacity |->
        [ s |-> [e \in Nodes |-> [y \in YearIdx(d) |-> Abs(RatedCapacity(d, x.s)[e][y])]],
          e |-> [e \in Nodes |-> [y \in YearIdx(d) |-> Abs(RatedCapacity(d, x.e)[e][y])]] ] ]

\* _get_initial_candidate_solution: nothing invested, nothing installed
GetInitialCandidateSolution(d) ==
    [ investment |->
        [ s |-> [e \in Nodes |-> [y \in YearIdx(d) |-> 0]],
          e |-> [e \in Nodes |-> [y \in YearIdx(d) |-> 0]] ],
      total_capacity |->
        [ s |-> [e \in Nodes |-> [y \in YearIdx(d) |-> 0]],
          e |-> [e \in Nodes |-> [y \in YearIdx(d) |-> 0]] ] ]

\* variant: the relative tolerance is taken of |lower_bound| alone
BendersIsClose_RelativeToLowerBound(ub, lb, p) ==
    \/ Abs(ub - lb) * p.tol_rel.den <= p.tol_rel.num * Abs(lb)
    \/ Abs(ub - lb) <= p.tol_abs * DaysPerYear

\* isclose(upper_bound, lower_bound, abs_tol=tol_abs, rel_tol=tol_rel)
BendersIsClose(ub, lb, p) ==
    IsClose(ub, lb, p.tol_rel.num, p.tol_rel.den, p.tol_abs * DaysPerYear)

\* ------------------------------------------------------- Benders: actions
\* ---- bounds of the subproblem's answers
MaxUB == 2
MaxSens == 1

\* get_upper_bound: the weighted TSO objective, opaque here
UpperBounds == { u * DaysPerYear : u \in 0..MaxUB }

\* transmission_network.get_sensitivities: [s|e][year][node]
SensitivitySet(d) == [{"s", "e"} -> [YearIdx(d) -> [Nodes -> (-MaxSens)..0]]]

\* what the operational planning may answer for a candidate
SubproblemOutputs(d) == [upper_bound : UpperBounds, sensitivities : SensitivitySet(d)]

NoSensitivities(d) == [k \in {"s", "e"} |-> [y \in YearIdx(d) |-> [e \in Nodes |-> 0]]]

\* variant: the loop runs while iter <= num_max_iters
BendersEnterIteration_UpToCap ==
    /\ benders_pc = "loop"
    /\ benders_iter <= benders_params.num_max_iters /\ ~benders_convergence
    /\ shared_ess' = candidate_solution.total_capacity
    /\ admm_pc' = "init"
    /\ benders_pc' = "subproblem"
    /\ UNCHANGED <<params, iter, convergence, consensus_vars,
                   consensus_vars_prev_iter, dual_vars, tso_model, dso_models,
                   run_inputs, divisors, penalties, error_logged, results_written, iter_start_vars>>
    /\ UNCHANGED <<data, benders_params, benders_iter, benders_convergence,
                   lower_bound, upper_bound, candidate_solution, sensitivities,
                   benders_cuts, lower_bound_evolution, upper_bound_evolution>>

\* the while-test of "Benders' main cycle" holds: run_operational_planning
\* installs the candidate's total capacity and starts the ADMM run
BendersEnterIteration ==
    /\ benders_pc = "loop"
    /\ benders_iter < benders_params.num_max_iters /\ ~benders_convergence
    /\ shared_ess' = candidate_solution.total_capacity
    /\ admm_pc' = "init"
    /\ benders_pc' = "subproblem"
    /\ UNCHANGED <<params, iter, convergence, consensus_vars,
                   consensus_vars_prev_iter, dual_vars, tso_model, dso_models,
                   run_inputs, divisors, penalties, error_logged, results_written, iter_start_vars>>
    /\ UNCHANGED <<data, benders_params, benders_iter, benders_convergence,
                   lower_bound, upper_bound, candidate_solution, sensitivities,
                   benders_cuts, lower_bound_evolution, upper_bound_evolution>>

\* the while-test fails: the loop is left
BendersExit ==
    /\ benders_pc = "loop"
    /\ ~(benders_iter < benders_params.num_max_iters /\ ~benders_convergence)
    /\ benders_pc' = "done"
    /\ UNCHANGED admm_vars
    /\ UNCHANGED <<data, benders_params, benders_iter, benders_convergence,
                   lower_bound, upper_bound, candidate_solution, sensitivities,
                   benders_cuts, lower_bound_evolution, upper_bound_evolution,
                   shared_ess>>

\* run_operational_planning returns (its locals are gone), get_upper_bound,
\* then the "Convergence check" and, failing it, iter += 1
EvaluateSubproblem ==
    /\ benders_pc = "subproblem"
    /\ admm_pc = "done"
    /\ \E a \in subproblem_outputs :
        /\ sensitivities' = a.sensitivities
        /\ upper_bound' = a.upper_bound
    /\ upper_bound_evolution' = Append(upper_bound_evolution, upper_bound')
    /\ IF BendersIsClose(upper_bound', lower_bound, benders_params)
       THEN /\ lower_bound_evolution' = Append(lower_bound_evolution, lower_bound)
            /\ benders_convergence' = TRUE
            /\ benders_pc' = "done"
            /\ benders_iter' = benders_iter
       ELSE /\ lower_bound_evolution' = lower_bound_evolution
            /\ benders_convergence' = benders_convergence
            /\ benders_pc' = "add_cut"
            /\ benders_iter' = benders_iter + 1
    /\ admm_pc' = "idle"
    /\ iter' = 0
    /\ convergence' = FALSE
    /\ consensus_vars' = ZeroStore
    /\ consensus_vars_prev_iter' = ZeroStore
    /\ dual_vars' = ZeroStore
    /\ tso_model' = NoModel
    /\ dso_models' = NoModel
    /\ iter_start_vars' = ZeroStore
    /\ divisors' = NoDivisors(data)
    /\ penalties' = NoPenalties
    /\ UNCHANGED <<params, run_inputs, error_logged, results_written>>
    /\ UNCHANGED <<data, benders_params, lower_bound, candidate_solution,
                   benders_cuts, shared_ess>>

\* variant: the cut is appended while the ADMM run is between its steps
AddBendersCut_DuringAdmm ==
    /\ benders_pc = "subproblem"
    /\ admm_pc = "dso_solve"
    /\ Len(benders_cuts) < benders_iter
    /\ benders_cuts' = Append(benders_cuts,
            BendersCut(data, upper_bound, sensitivities, candidate_solution))
    /\ UNCHANGED admm_vars
    /\ UNCHANGED <<data, benders_params, benders_pc, benders_iter,
                   benders_convergence, lower_bound, upper_bound,
                   candidate_solution, sensitivities, lower_bound_evolution,
                   upper_bound_evolution, shared_ess>>

\* variant: the new cut replaces the list
AddBendersCut_Replacing ==
    /\ benders_pc = "add_cut"
    /\ benders_cuts' = << BendersCut(data, upper_bound, sensitivities,
                                     candidate_solution) >>
    /\ benders_pc' = "master"
    /\ UNCHANGED admm_vars
    /\ UNCHANGED <<data, benders_params, benders_iter, benders_convergence,
                   lower_bound, upper_bound, candidate_solution, sensitivities,
                   lower_bound_evolution, upper_bound_evolution, shared_ess>>

\* planning_problem.add_benders_cut(master, upper_bound, sensitivities, candidate)
AddBendersCut ==
    /\ benders_pc = "add_cut"
    /\ benders_cuts' = Append(benders_cuts,
            BendersCut(data, upper_bound, sensitivities, candidate_solution))
    /\ benders_pc' = "master"
    /\ UNCHANGED admm_vars
    /\ UNCHANGED <<data, benders_params, benders_iter, benders_convergence,
                   lower_bound, upper_bound, candidate_solution, sensitivities,
                   lower_bound_evolution, upper_bound_evolution, shared_ess>>

\* shared_ess_data.optimize(master), get_candidate_solution, LB = alpha
SolveMaster ==
    /\ benders_pc = "master"
    /\ \E x \in MasterOptima(data, benders_cuts) :
        /\ candidate_solution' = GetCandidateSolution(data, x)
        /\ lower_bound' = AlphaAt(data, benders_cuts, x)
    /\ lower_bound_evolution' = Append(lower_bound_evolution, lower_bound')
    /\ benders_pc' = "loop"
    /\ UNCHANGED admm_vars
    /\ UNCHANGED <<data, benders_params, benders_iter, benders_convergence,
                   upper_bound, sensitivities, benders_cuts,
                   upper_bound_evolution, shared_ess>>

BendersStep ==
    \/ BendersEnterIteration
    \/ BendersExit
    \/ EvaluateSubproblem
    \/ AddBendersCut
    \/ SolveMaster

\* ------------------------------------------------ reading the input files
\* the fields NetworkParameters.__init__ sets and the reader assigns
DefaultNetworkParameters ==
    [obj_type |-> "OBJ_MIN_COST", relaxed_model |-> FALSE, ess_relax |-> FALSE,
     fl_relax |-> FALSE]

\* what the files may hold
ObjTypes == {"COST", "CONGESTION_MANAGEMENT", "LOSSES"}

InputFiles ==
    [ market : [scenarios_sheet : BOOLEAN, probabilities_add_up : BOOLEAN,
                costs_sheet : BOOLEAN],
      params : [obj_type : ObjTypes, relaxed_model : BOOLEAN, ess_relax : BOOLEAN,
                fl_relax : BOOLEAN],
      ess    : [investment_cost_sheet : BOOLEAN] ]

\* how a call ends: what it printed, and the exception it raised if any
Returns == [printed |-> << >>, raised |-> "none", code |-> "none"]

\* an exception raised by pandas on a sheet that cannot be read
Raises == [printed |-> << >>, raised |-> "Exception", code |-> "none"]

\* print(line); exit(code): exit raises SystemExit(code)
PrintAndExit(line, code) ==
    [printed |-> << [line |-> line, code |-> code] >>, raised |-> "SystemExit",
     code |-> code]

\* try: body / except: print(line); exit(code) -- the bare except catches
\* every exception of the body, the SystemExit of an exit() in it included
BareExcept(body, line, code) ==
    IF body.raised = "none"
    THEN body
    ELSE [printed |-> body.printed \o << [line |-> line, code |-> code] >>,
          raised |-> "SystemExit", code |-> code]

\* two calls in a row: the second runs if the first returned
Then(first, second) == IF first.raised = "none" THEN second ELSE first

\* _get_market_scenarios_info_from_excel_file
GetMarketScenariosInfoFromExcelFile(file) ==
    IF ~file.scenarios_sheet
    THEN BareExcept(Raises, "Workbook. Sheet does not exist.", "1")
    ELSE IF ~file.probabilities_add_up
         THEN PrintAndExit("Probability of scenarios does not add up to 100%.",
                           "ERROR_MARKET_DATA_FILE")
         ELSE Returns

\* _get_market_costs_from_excel_file: no handler of its own
GetMarketCostsFromExcelFile(file) == IF file.costs_sheet THEN Returns ELSE Raises

\* _read_market_data_from_file
ReadMarketDataFromFile(file) ==
    BareExcept(Then(GetMarketScenariosInfoFromExcelFile(file),
                    GetMarketCostsFromExcelFile(file)),
               "Reading market data from file(s). Exiting...", "ERROR_SPECIFICATION_FILE")

\* _get_investment_costs_from_excel_file
GetInvestmentCostsFromExcelFile(file) ==
    IF file.investment_cost_sheet
    THEN Returns
    ELSE BareExcept(Raises, "Workbook. Sheet does not exist.", "ERROR_MARKET_DATA_FILE")

\* _read_shared_energy_storage_data_from_file
ReadSharedEnergyStorageDataFromFile(file) ==
    BareExcept(GetInvestmentCostsFromExcelFile(file), "File. Exiting...",
               "ERROR_OPERATIONAL_DATA_FILE")

\* variant: the two switches are left as the file gives them
AssignedNetworkParameters_AsInFile(obj_type, file) ==
    [obj_type |-> obj_type, relaxed_model |-> file.relaxed_model,
     ess_relax |-> file.ess_relax, fl_relax |-> file.fl_relax]

\* the assignments that follow the test of obj_type: the switches are taken
\* from the file, then "if parameters.relaxed_model:" sets ess_relax and
\* fl_relax to True
AssignedNetworkParameters(obj_type, file) ==
    LET read == [obj_type |-> obj_type, relaxed_model |-> file.relaxed_model,
                 ess_relax |-> file.ess_relax, fl_relax |-> file.fl_relax]
    IN  IF read.relaxed_model
        THEN [read EXCEPT !.ess_relax = TRUE, !.fl_relax = TRUE]
        ELSE read

\* variant: the flags are assigned before obj_type is tested
ReadNetworkParametersFromFile_FlagsFirst(parameters, file) ==
    IF file.obj_type = "COST"
    THEN [end |-> Returns, parameters |-> AssignedNetworkParameters("OBJ_MIN_COST", file)]
    ELSE IF file.obj_type = "CONGESTION_MANAGEMENT"
         THEN [end |-> Returns,
               parameters |-> AssignedNetworkParameters("OBJ_CONGESTION_MANAGEMENT", file)]
         ELSE [end |-> PrintAndExit("Invalid objective type. Exiting...", "ERROR_PARAMS_FILE"),
               parameters |-> AssignedNetworkParameters(parameters.obj_type, file)]

\* _read_network_parameters_from_file: how it ends and what the object holds
ReadNetworkParametersFromFile(parameters, file) ==
    IF file.obj_type = "COST"
    THEN [end |-> Returns, parameters |-> AssignedNetworkParameters("OBJ_MIN_COST", file)]
    ELSE IF file.obj_type = "CONGESTION_MANAGEMENT"
         THEN [end |-> Returns,
               parameters |-> AssignedNetworkParameters("OBJ_CONGESTION_MANAGEMENT", file)]
         ELSE [end |-> PrintAndExit("Invalid objective type. Exiting...", "ERROR_PARAMS_FILE"),
               parameters |-> parameters]

\* a call of _read_planning_problem has ended as 'end': a SystemExit nobody
\* catches ends the process with its code, otherwise the reading goes on
Proceed(end, next_pc) ==
    /\ diagnostics' = diagnostics \o end.printed
    /\ IF end.raised = "none"
       THEN read_pc' = next_pc /\ exit_code' = exit_code
       ELSE read_pc' = "exited" /\ exit_code' = end.code

\* planning_problem.read_market_data_from_file()
ReadMarketData ==
    /\ read_pc = "market"
    /\ Proceed(ReadMarketDataFromFile(input_files.market), "network_params")
    /\ UNCHANGED <<input_files, network_params, run_vars>>

\* distribution_network.read_network_parameters() and
\* transmission_network.read_network_parameters(): NetworkData passes the call
\* to NetworkParameters.read_parameters_from_file
ReadNetworkParameters ==
    /\ read_pc = "network_params"
    /\ LET r == ReadNetworkParametersFromFile(network_params, input_files.params)
       IN  /\ network_params' = r.parameters
           /\ Proceed(r.end, "ess_data")
    /\ UNCHANGED <<input_files, run_vars>>

\* shared_ess_data.read_shared_energy_storage_data_from_file()
ReadSharedEssData ==
    /\ read_pc = "ess_data"
    /\ Proceed(ReadSharedEnergyStorageDataFromFile(input_files.ess), "read_done")
    /\ UNCHANGED <<input_files, network_params, run_vars>>

\* the problem is read: run_operational_planning is called
StartOperationalPlanning ==
    /\ read_pc = "read_done"
    /\ admm_pc = "idle"
    /\ benders_pc = "none"
    /\ admm_pc' = "init"
    /\ read_pc' = "running"
    /\ UNCHANGED <<input_files, network_params, diagnostics, exit_code>>
    /\ UNCHANGED <<benders_vars, solver_outputs, baseline_outputs, subproblem_outputs,
                   solver_statuses, divisors, penalties, error_logged, results_written,
                   iter_start_vars, params, iter, convergence, consensus_vars,
                   consensus_vars_prev_iter, dual_vars, tso_model, dso_models,
                   round_vars, nc_vars>>

ReadStep ==
    \/ ReadMarketData
    \/ ReadNetworkParameters
    \/ ReadSharedEssData
    \/ StartOperationalPlanning

\* ------------------------------------------- the DSO solves of one round
\* update_distribution_coordination_models_and_solve with several DSOs.  The
\* loop of the source takes them in the order of the dictionary; here the
\* fixing of the inputs and the solve of each DSO are steps of their own,
\* taken in any order and interleaving.
Dsos == 1..NumDsos

\* params.rho of the round: rho[block].tso, rho[block].dso[n]
RoundRho == [pf  |-> [tso |-> 1, dso |-> [n \in Dsos |-> 1 + n]],
             ess |-> [tso |-> 2, dso |-> [n \in Dsos |-> n]]]

\* the values the slots of one DSO may hold when the round begins
RoundTsoSlots == {ZeroQuad, [ZeroQuad EXCEPT !["pf_p"] = 1],
                  [ZeroQuad EXCEPT !["ess_q"] = MaxVal]}

RoundDuals == {ZeroQuad, [ZeroQuad EXCEPT !["pf_p"] = -1, !["ess_p"] = 1]}

\* models[node_id] before the round: nothing fixed, the baseline solution
RoundNoModel == [pc |-> "waiting", vmag |-> 1, req |-> ZeroQuad, dual |-> ZeroQuad,
                 out |-> ZeroQuad]

\* variant: the requests of a DSO are netted with what the models of the
\* other DSOs hold at the moment
RoundFixedInputs_NettedWithOthers(store, models, n) ==
    [ vmag |-> store.v[n],
      req  |-> [c \in Quantities |->
                  store.tso[n][c] - SumOver(Dsos \ {n}, [m \in Dsos |-> models[m].out[c]])],
      dual |-> store.dual_dso[n] ]

\* what the loop body fixes in models[node_id]: the interface voltage, the
\* requests p/q_pf_req and p/q_ess_req from the .tso slots of this node, the
\* duals from the DSO's own duals
RoundFixedInputs(store, models, n) ==
    [ vmag |-> store.v[n],
      req  |-> [c \in Quantities |-> store.tso[n][c]],
      dual |-> store.dual_dso[n] ]

\* distribution_network.optimize(model, from_warm_start): the solver is some
\* function of what the model holds, the fixed values and (warm start) its
\* last solution; k tells the functions apart
Optimize(k, m) ==
    [c \in Quantities |->
        (Abs(m.req[c]) + Abs(m.dual[c]) + m.vmag + m.out[c] + k) % (MaxVal + 1)]

\* the loop body up to "# Solve!" for one DSO
DsoFix(n) ==
    /\ round_pc = "solving"
    /\ round_models[n].pc = "waiting"
    /\ LET f == RoundFixedInputs(round_store, round_models, n)
       IN  round_models' = [round_models EXCEPT ![n] =
               [@ EXCEPT !.pc = "fixed", !.vmag = f.vmag, !.req = f.req, !.dual = f.dual]]
    /\ UNCHANGED <<round_store, round_solver, round_order, round_start, round_pc>>

\* res[node_id] = distribution_network.optimize(model, ...)
DsoOptimize(n) ==
    /\ round_pc = "solving"
    /\ round_models[n].pc = "fixed"
    /\ round_models' = [round_models EXCEPT ![n] =
           [@ EXCEPT !.pc = "solved", !.out = Optimize(round_solver, round_models[n])]]
    /\ round_order' = Append(round_order, n)
    /\ UNCHANGED <<round_store, round_solver, round_start, round_pc>>

\* step 3.1 on the slots of the DSOs: the .dso slots are read from the DSOs'
\* models, the .tso slots from the TSO's model, which holds what they held;
\* then the duals are incremented
RoundUpdated(store, models) ==
    LET cv == [tso |-> store.tso, dso |-> [n \in Dsos |-> models[n].out]]
        error(n, c) == cv.tso[n][c] - cv.dso[n][c]
    IN  [ v   |-> store.v,
          tso |-> cv.tso,
          dso |-> cv.dso,
          dual_tso |-> [n \in Dsos |-> [c \in Quantities |->
              store.dual_tso[n][c] +
                  (IF c = "pf_p" THEN 0
                   ELSE IF c = "pf_q" THEN RoundRho.pf.tso * error(n, c)
                   ELSE RoundRho.ess.tso * error(n, c))]],
          dual_dso |-> [n \in Dsos |-> [c \in Quantities |->
              store.dual_dso[n][c] +
                  (IF c \in {"pf_p", "pf_q"} THEN RoundRho.pf.dso[n] * (-error(n, c))
                   ELSE RoundRho.ess.dso[n] * (-error(n, c)))]] ]

\* the loop over the DSOs has ended: "3.1 Update ADMM CONSENSUS variables"
RoundUpdate ==
    /\ round_pc = "solving"
    /\ \A n \in Dsos : round_models[n].pc = "solved"
    /\ round_store' = RoundUpdated(round_store, round_models)
    /\ round_pc' = "updated"
    /\ UNCHANGED <<round_models, round_solver, round_order, round_start>>

RoundStep ==
    /\ \/ \E n \in Dsos : DsoFix(n)
       \/ \E n \in Dsos : DsoOptimize(n)
       \/ RoundUpdate
    /\ UNCHANGED <<benders_vars, params, admm_pc, iter, convergence, consensus_vars,
                   consensus_vars_prev_iter, dual_vars, tso_model, dso_models,
                   solver_outputs, baseline_outputs, subproblem_outputs,
                   solver_statuses, read_vars, nc_vars, divisors, penalties,
                   error_logged, results_written, iter_start_vars>>

\* no round of this kind is followed
RoundIdle ==
    /\ round_store = [v |-> [n \in Dsos |-> 1], tso |-> [n \in Dsos |-> ZeroQuad],
                      dso |-> [n \in Dsos |-> ZeroQuad],
                      dual_tso |-> [n \in Dsos |-> ZeroQuad],
                      dual_dso |-> [n \in Dsos |-> ZeroQuad]]
    /\ round_models = [n \in Dsos |-> RoundNoModel]
    /\ round_solver = 0
    /\ round_order = << >>
    /\ round_start = [store |-> round_store, models |-> round_models]
    /\ round_pc = "none"

\* --------------------------- _run_operational_planning_without_coordination
\* One (year, day) with the instants 1..NumInstants, the market and operation
\* scenarios flattened into Scenarios.  Flows are in MW: the division by the
\* networks' baseMVA is left out.
Instants == 1..NumInstants

Scenarios == 1..NumScenarios

\* create_interface_power_flow_variables: 'p' and 'q' are [0.0] * num_instants
NoInterfaceFlow == [n \in Dsos |-> [t \in Instants |-> [p |-> 0, q |-> 0]]]

\* the expected interface flows a DSO's solve may return
FlowProfiles == [Instants -> [p : 0..1, q : 0..1]]

\* a TSO model just built: pc, qc fixed at no node, not solved
FreeTsoModel == [fixed |-> << >>, solved |-> FALSE]

\* one pass of "for node_id in distribution_networks": build and solve the
\* DSO's model, then copy its expected interface flows instant by instant;
\* the loop "for p in dso_model[year][day].periods" leaves p at the last one
SolveDsoWithoutCoordination ==
    /\ nc_pc = "dsos"
    /\ Len(nc_dso_models) < NumDsos
    /\ LET n == Len(nc_dso_models) + 1
       IN  /\ \E flows \in FlowProfiles :
                 nc_interface_pf' = [nc_interface_pf EXCEPT ![n] = flows]
           /\ nc_dso_models' = Append(nc_dso_models, n)
    /\ nc_p' = NumInstants
    /\ UNCHANGED <<nc_pc, nc_tso_model>>

\* transmission_network.build_model() after the loop over the DSOs
BuildTsoWithoutCoordination ==
    /\ nc_pc = "dsos"
    /\ Len(nc_dso_models) = NumDsos
    /\ nc_tso_model' = FreeTsoModel
    /\ nc_pc' = "fix"
    /\ UNCHANGED <<nc_interface_pf, nc_dso_models, nc_p>>

\* the nodes whose interface consumption is fixed in the TSO model
FixedNodes == DOMAIN nc_tso_model.fixed

\* one pass of "for node_id in ...active_distribution_network_nodes": pc and
\* qc are read at interface_pf[...]['p'][p] with the p the last loop over
\* the instants left, before "for p in tso_model[year][day].periods" starts,
\* and are fixed for every scenario and every instant
FixInterfaceWithoutCoordination ==
    /\ nc_pc = "fix"
    /\ FixedNodes # Dsos
    /\ LET n == CHOOSE m \in Dsos \ FixedNodes : \A k \in Dsos \ FixedNodes : m <= k
           pc == nc_interface_pf[n][nc_p].p
           qc == nc_interface_pf[n][nc_p].q
       IN  nc_tso_model' = [nc_tso_model EXCEPT !.fixed = Append(@,
               [s \in Scenarios |-> [t \in Instants |-> [pc |-> pc, qc |-> qc]]])]
    /\ nc_p' = NumInstants
    /\ UNCHANGED <<nc_pc, nc_interface_pf, nc_dso_models>>

\* results['tso'] = transmission_network.optimize(tso_model), and the return
SolveTsoWithoutCoordination ==
    /\ nc_pc = "fix"
    /\ FixedNodes = Dsos
    /\ nc_tso_model' = [nc_tso_model EXCEPT !.solved = TRUE]
    /\ nc_pc' = "returned"
    /\ UNCHANGED <<nc_interface_pf, nc_dso_models, nc_p>>

WithoutCoordinationStep ==
    /\ \/ SolveDsoWithoutCoordination
       \/ BuildTsoWithoutCoordination
       \/ FixInterfaceWithoutCoordination
       \/ SolveTsoWithoutCoordination
    /\ UNCHANGED <<benders_vars, params, admm_pc, iter, convergence, consensus_vars,
                   consensus_vars_prev_iter, dual_vars, tso_model, dso_models,
                   solver_outputs, baseline_outputs, subproblem_outputs,
                   solver_statuses, read_vars, round_vars, divisors, penalties,
                   error_logged, results_written, iter_start_vars>>

\* run_without_coordination is not called
WithoutCoordinationIdle ==
    /\ nc_pc = "none"
    /\ nc_interface_pf = NoInterfaceFlow
    /\ nc_dso_models = << >>
    /\ nc_tso_model = FreeTsoModel
    /\ nc_p = 0

\* ------------------------------------------------------------ input data
\* two years of weight 1, two representative days, one cost per year
PlanningData ==
    [ years |-> << [label |-> 0, num_years |-> 1], [label |-> 1, num_years |-> 1] >>,
      days |-> << 219, 146 >>,
      discount_factor |-> 1,
      t_cal |-> [y \in 1..2 |-> [e \in Nodes |-> 2]],
      cost_s |-> << 1, 2 >>,
      cost_e |-> << 1, 2 >>,
      budget |-> 4,
      max_capacity |-> 2,
      min_pe_factor |-> 1,
      max_pe_factor |-> 1 ]

MaxBendersIters == 3

BendersParamSet ==
    [ num_max_iters : 1..MaxBendersIters, tol_abs : {0}, tol_rel : {[num |-> 3, den |-> 5]} ]

\* ---- bounds of the horizon data
MaxWeight == 2
MaxTcal == 5

\* three planning years of num_years = w each, one calendar life tc for
\* every site and year, one unit cost per year
HorizonData(w, tc, cost, b) ==
    [ years |-> << [label |-> 0, num_years |-> w], [label |-> w, num_years |-> w],
                   [label |-> 2 * w, num_years |-> w] >>,
      days |-> << 219, 146 >>,
      discount_factor |-> 1,
      t_cal |-> [y \in 1..3 |-> [e \in Nodes |-> tc]],
      cost_s |-> cost,
      cost_e |-> cost,
      budget |-> b,
      max_capacity |-> 2,
      min_pe_factor |-> 1,
      max_pe_factor |-> 1 ]

\* the data the master problem is built from: every calendar life and year
\* weight within the bounds, and two data sets with nothing to spend, one of
\* them with a year in which capacity costs nothing
MasterDataSet ==
    { HorizonData(w, tc, << 1, 2, 2 >>, 4) : w \in 1..MaxWeight, tc \in 1..MaxTcal }
    \cup { [PlanningData EXCEPT !.budget = 0],
           [PlanningData EXCEPT !.budget = 0, !.cost_s = << 1, 0 >>, !.cost_e = << 1, 0 >>] }

\* ------------------------------------------------------------ specifications
\* _read_planning_problem has returned
FilesRead ==
    /\ read_pc = "running"
    /\ input_files \in { f \in InputFiles :
          /\ \A k \in DOMAIN f.market : f.market[k]
          /\ f.params = [obj_type |-> "COST", relaxed_model |-> FALSE,
                         ess_relax |-> FALSE, fl_relax |-> FALSE]
          /\ f.ess.investment_cost_sheet }
    /\ network_params = ReadNetworkParametersFromFile(DefaultNetworkParameters,
                                                      input_files.params).parameters
    /\ diagnostics = << >>
    /\ exit_code = "none"

AdmmIdle ==
    /\ iter = 0
    /\ convergence = FALSE
    /\ consensus_vars = ZeroStore
    /\ consensus_vars_prev_iter = ZeroStore
    /\ dual_vars = ZeroStore
    /\ tso_model = NoModel
    /\ dso_models = NoModel
    /\ divisors = NoDivisors(data)
    /\ penalties = NoPenalties
    /\ error_logged = FALSE
    /\ results_written = FALSE
    /\ iter_start_vars = ZeroStore

BendersStart ==
    /\ benders_iter = 1
    /\ benders_convergence = FALSE
    /\ lower_bound = -(data.budget * 1000) * DaysPerYear
    /\ upper_bound = (data.budget * 1000) * DaysPerYear
    /\ candidate_solution = GetInitialCandidateSolution(data)
    /\ sensitivities = NoSensitivities(data)
    /\ benders_cuts = << >>
    /\ lower_bound_evolution = << lower_bound >>
    /\ upper_bound_evolution = << upper_bound >>
    /\ shared_ess = GetInitialCandidateSolution(data).total_capacity

\* run_operational_planning called on its own
InitADMM ==
    /\ data = PlanningData
    /\ params \in AdmmParamSet
    /\ solver_outputs = SolverOutputs
    /\ solver_statuses = {"ok"}
    /\ baseline_outputs = BaselineOutputs
    /\ FilesRead
    /\ RoundIdle
    /\ WithoutCoordinationIdle
    /\ subproblem_outputs = SubproblemOutputs(data)
    /\ admm_pc = "init"
    /\ AdmmIdle
    /\ benders_params \in [ num_max_iters : {1}, tol_abs : {0},
                            tol_rel : {[num |-> 3, den |-> 5]} ]
    /\ benders_pc = "none"
    /\ BendersStart

NextADMM == AdmmStep \/ WriteOperationalResults

SpecADMM == InitADMM /\ [][NextADMM]_vars

\* run_planning_problem: the Benders loop around the ADMM run
InitBenders ==
    /\ data = PlanningData
    /\ params \in [tol : {[num |-> 89, den |-> 200]}, rho : RhoSet,
                    num_max_iters : {MaxAdmmIters}, adaptive_penalty : {FALSE}]
    /\ solver_outputs = {ZeroField, [ZeroField EXCEPT ![1][1]["pf_p"] = MaxVal,
                                                      ![1][1]["pf_q"] = MaxVal]}
    /\ solver_statuses = {"ok", "error"}
    /\ baseline_outputs = BaselineOutputs
    /\ FilesRead
    /\ RoundIdle
    /\ WithoutCoordinationIdle
    /\ subproblem_outputs = SubproblemOutputs(data)
    /\ admm_pc = "idle"
    /\ AdmmIdle
    /\ benders_params \in BendersParamSet
    /\ benders_pc = "loop"
    /\ BendersStart

NextBenders == BendersStep \/ AdmmStep

SpecBenders == InitBenders /\ [][NextBenders]_vars

\* run_planning_problem on each of the data sets: one master solve, and a
\* second outer iteration where there is nothing to spend; the subproblem's
\* sensitivities are the same in every year
InitMaster ==
    /\ data \in MasterDataSet
    /\ params \in [tol : {[num |-> 89, den |-> 200]}, rho : RhoSet,
                    num_max_iters : {MaxAdmmIters}, adaptive_penalty : {FALSE}]
    /\ solver_outputs = {ZeroField, [ZeroField EXCEPT ![1][1]["pf_p"] = MaxVal,
                                                      ![1][1]["pf_q"] = MaxVal]}
    /\ solver_statuses = {"ok"}
    /\ baseline_outputs = BaselineOutputs
    /\ FilesRead
    /\ RoundIdle
    /\ WithoutCoordinationIdle
    /\ subproblem_outputs =
          { a \in SubproblemOutputs(data) :
              \A k \in {"s", "e"}, y \in YearIdx(data), e \in Nodes :
                  a.sensitivities[k][y][e] = a.sensitivities[k][1][e] }
    /\ admm_pc = "idle"
    /\ AdmmIdle
    /\ benders_params \in [ num_max_iters : {IF data.budget = 0 THEN 3 ELSE 2},
                            tol_abs : {0}, tol_rel : {[num |-> 3, den |-> 5]} ]
    /\ benders_pc = "loop"
    /\ BendersStart

NextMaster == BendersStep \/ AdmmStep

SpecMaster == InitMaster /\ [][NextMaster]_vars

\* the program from its start: read the planning problem, then run the
\* operational planning
InitRead ==
    /\ data = PlanningData
    /\ params \in [tol : {[num |-> 89, den |-> 200]}, rho : RhoSet,
                    num_max_iters : {MaxAdmmIters}, adaptive_penalty : {FALSE}]
    /\ solver_outputs = {ZeroField, [ZeroField EXCEPT ![1][1]["pf_p"] = MaxVal,
                                                      ![1][1]["pf_q"] = MaxVal]}
    /\ solver_statuses = {"ok"}
    /\ baseline_outputs = BaselineOutputs
    /\ subproblem_outputs = SubproblemOutputs(data)
    /\ read_pc = "market"
    /\ input_files \in InputFiles
    /\ network_params = DefaultNetworkParameters
    /\ diagnostics = << >>
    /\ exit_code = "none"
    /\ RoundIdle
    /\ WithoutCoordinationIdle
    /\ admm_pc = "idle"
    /\ AdmmIdle
    /\ benders_params \in [ num_max_iters : {1}, tol_abs : {0},
                            tol_rel : {[num |-> 3, den |-> 5]} ]
    /\ benders_pc = "none"
    /\ BendersStart

NextRead == ReadStep \/ NextADMM

SpecRead == InitRead /\ [][NextRead]_vars

\* one round of DSO solves, from any values of the DSOs' slots
InitRound ==
    /\ data = PlanningData
    /\ params \in [tol : {[num |-> 89, den |-> 200]}, rho : RhoSet,
                    num_max_iters : {MaxAdmmIters}, adaptive_penalty : {FALSE}]
    /\ solver_outputs = SolverOutputs
    /\ solver_statuses = {"ok"}
    /\ baseline_outputs = BaselineOutputs
    /\ subproblem_outputs = SubproblemOutputs(data)
    /\ FilesRead
    /\ round_store \in [v : [Dsos -> {1}], tso : [Dsos -> RoundTsoSlots],
                        dso : [Dsos -> {ZeroQuad}], dual_tso : [Dsos -> {ZeroQuad}],
                        dual_dso : [Dsos -> RoundDuals]]
    /\ round_models = [n \in Dsos |-> RoundNoModel]
    /\ round_solver \in 0..1
    /\ round_order = << >>
    /\ round_start = [store |-> round_store, models |-> round_models]
    /\ round_pc = "solving"
    /\ WithoutCoordinationIdle
    /\ admm_pc = "idle"
    /\ AdmmIdle
    /\ benders_params \in [ num_max_iters : {1}, tol_abs : {0},
                            tol_rel : {[num |-> 3, den |-> 5]} ]
    /\ benders_pc = "none"
    /\ BendersStart

NextRound == RoundStep

SpecRound == InitRound /\ [][NextRound]_vars

\* the stores _update_previous_consensus_variables may be called on
SnapshotStores == [Roles -> {ZeroField} \cup
                      { [ZeroField EXCEPT ![n][t][c] = MaxVal] :
                          n \in Nodes, t \in Periods, c \in Quantities }]

\* _update_previous_consensus_variables called twice on any store, any
\* 'previous' and any duals; iter_start_vars keeps the 'previous' it began with
InitSnapshot ==
    /\ data = PlanningData
    /\ params \in [tol : {[num |-> 89, den |-> 200]}, rho : RhoSet,
                    num_max_iters : {MaxAdmmIters}, adaptive_penalty : {FALSE}]
    /\ solver_outputs = SolverOutputs
    /\ solver_statuses = {"ok"}
    /\ baseline_outputs = BaselineOutputs
    /\ subproblem_outputs = SubproblemOutputs(data)
    /\ FilesRead
    /\ RoundIdle
    /\ WithoutCoordinationIdle
    /\ admm_pc = "snapshot"
    /\ iter = 0
    /\ convergence = FALSE
    /\ consensus_vars \in SnapshotStores
    /\ consensus_vars_prev_iter \in {ZeroStore} \cup
          { [tso |-> f, dso |-> ZeroField] : f \in SolverOutputs }
    /\ dual_vars \in {ZeroStore, [ZeroStore EXCEPT !.dso[1][1]["pf_p"] = -1]}
    /\ tso_model = NoModel
    /\ dso_models = NoModel
    /\ divisors = NoDivisors(data)
    /\ penalties = NoPenalties
    /\ error_logged = FALSE
    /\ results_written = FALSE
    /\ iter_start_vars = consensus_vars_prev_iter
    /\ benders_params \in [ num_max_iters : {1}, tol_abs : {0},
                            tol_rel : {[num |-> 3, den |-> 5]} ]
    /\ benders_pc = "none"
    /\ BendersStart

NextSnapshot == SnapshotCall

SpecSnapshot == InitSnapshot /\ [][NextSnapshot]_vars

\* run_without_coordination
InitWithoutCoordination ==
    /\ data = PlanningData
    /\ params \in [tol : {[num |-> 89, den |-> 200]}, rho : RhoSet,
                    num_max_iters : {MaxAdmmIters}, adaptive_penalty : {FALSE}]
    /\ solver_outputs = SolverOutputs
    /\ solver_statuses = {"ok"}
    /\ baseline_outputs = BaselineOutputs
    /\ subproblem_outputs = SubproblemOutputs(data)
    /\ FilesRead
    /\ RoundIdle
    /\ nc_pc = "dsos"
    /\ nc_interface_pf = NoInterfaceFlow
    /\ nc_dso_models = << >>
    /\ nc_tso_model = FreeTsoModel
    /\ nc_p = 0
    /\ admm_pc = "idle"
    /\ AdmmIdle
    /\ benders_params \in [ num_max_iters : {1}, tol_abs : {0},
                            tol_rel : {[num |-> 3, den |-> 5]} ]
    /\ benders_pc = "none"
    /\ BendersStart

NextWithoutCoordination == WithoutCoordinationStep

SpecWithoutCoordination == InitWithoutCoordination /\ [][NextWithoutCoordination]_vars

\* ------------------------------------------------------------ claims: ADMM
\* |P.tso - P.dso| + |Q.tso - Q.dso| of one slot, on the stored values
SlotResidual(cv, n, t, cp, cq) ==
      Abs(cv.tso[n][t][cp] - cv.dso[n][t][cp])
    + Abs(cv.tso[n][t][cq] - cv.dso[n][t][cq])

\* the same on the values rounded to ERROR_PRECISION
RoundedSlotResidual(cv, n, t, cp, cq) ==
      Abs(Round(cv.tso[n][t][cp]) - Round(cv.dso[n][t][cp]))
    + Abs(Round(cv.tso[n][t][cq]) - Round(cv.dso[n][t][cq]))

\* twice the rounded residuals of every slot, interface flows and shared ESS
PooledResidual(cv) ==
    SumOver(Index, [i \in Index |->
          2 * RoundedSlotResidual(cv, i[1], i[2], "pf_p", "pf_q")
        + 2 * RoundedSlotResidual(cv, i[1], i[2], "ess_p", "ess_q")])

\* S <= tol*N, or S within the relative tolerance of tol*N, or S - tol*N <= tol
WithinTolerance(S, N, tol) ==
    \/ S * tol.den <= tol.num * N
    \/ (S * tol.den - tol.num * N) * RelTolDen <= RelTolNum * S * tol.den
    \/ S * tol.den - tol.num * N <= tol.num

\* S <= tol*N, or S within the relative tolerance of tol*N, and nothing else
WithinRelativeTolerance(S, N, tol) ==
    \/ S * tol.den <= tol.num * N
    \/ (S * tol.den - tol.num * N) * RelTolDen <= RelTolNum * S * tol.den

\* C1 as stated: whenever the ADMM loop has stopped with convergence = True,
\* every slot by itself has |P.tso - P.dso| + |Q.tso - Q.dso| <= tol for the
\* interface flows and likewise for the shared-ESS powers.
C1_PerIndexBound ==
    (admm_pc = "done" /\ convergence) =>
        \A n \in Nodes, t \in Periods :
            /\ SlotResidual(consensus_vars, n, t, "pf_p", "pf_q") * params.tol.den
                   <= params.tol.num
            /\ SlotResidual(consensus_vars, n, t, "ess_p", "ess_q") * params.tol.den
                   <= params.tol.num

\* C1 amended: whenever the ADMM loop has stopped with convergence = True, the
\* sum over all slots of twice the rounded residuals of the interface flows
\* and the shared-ESS powers is at most tol * 8 * (number of slots), or exceeds
\* it by no more than the relative tolerance or by tol: a bound on the pooled
\* sum, not on each slot.
C1_PooledBound ==
    (admm_pc = "done" /\ convergence) =>
        WithinTolerance(PooledResidual(consensus_vars), 8 * Cardinality(Index),
                        params.tol)

\* a converged stop in which one slot's interface residual exceeds tol
C1_Witness ==
    /\ admm_pc = "done"
    /\ convergence
    /\ \E n \in Nodes, t \in Periods :
        SlotResidual(consensus_vars, n, t, "pf_p", "pf_q") * params.tol.den
            > params.tol.num

\* a step that evaluates the stopping criteria
CheckEvaluated ==
    \/ admm_pc = "tso_check" /\ iter > 1
    \/ admm_pc = "dso_check"

\* C2 as stated: check_admm_convergence returns True exactly when the
\* consensus sum and the stationarity sum both pass, a sum S passing when
\* S <= tol*N or S is within the relative tolerance of tol*N, with no other
\* slack.
C2_RelativeSlackOnly ==
    [][CheckEvaluated =>
          (convergence' <=>
              /\ WithinRelativeTolerance(ConsensusSum(consensus_vars), NumElems,
                                         params.tol)
              /\ WithinRelativeTolerance(
                     StationarySum(consensus_vars, consensus_vars_prev_iter,
                                   params.rho), NumElems, params.tol))]_vars

\* C2 amended: check_admm_convergence returns True exactly when both sums
\* pass, a sum S passing when S <= tol*N, or S is within the relative
\* tolerance of tol*N, or S exceeds tol*N by at most tol (the abs_tol of the
\* isclose call).
C2_AbsoluteSlackToo ==
    [][CheckEvaluated =>
          (convergence' <=>
              /\ WithinTolerance(ConsensusSum(consensus_vars), NumElems,
                                 params.tol)
              /\ WithinTolerance(
                     StationarySum(consensus_vars, consensus_vars_prev_iter,
                                   params.rho), NumElems, params.tol))]_vars

\* a converged stop whose consensus sum passes by the absolute slack alone
C2_Witness ==
    /\ admm_pc = "done"
    /\ convergence
    /\ ~WithinRelativeTolerance(ConsensusSum(consensus_vars), NumElems, params.tol)

\* C3: when the DSO solve of iteration k has run, the TSO solve of iteration
\* k has returned before it and its outputs are in the .tso slots, and the
\* requests the DSO solve was given are those outputs, not older values.
C3_DsoReadsCurrentTso ==
    admm_pc = "dso_update" =>
        /\ tso_model.at = iter
        /\ dso_models.at = iter
        /\ consensus_vars.tso = tso_model.out
        /\ dso_models.req = tso_model.out

\* a DSO solve of a later iteration whose TSO outputs differ from the values
\* the .tso slots held when the iteration began
C3_Witness ==
    /\ admm_pc = "dso_update"
    /\ iter >= 1
    /\ tso_model.out # iter_start_vars.tso
    /\ dso_models.req = tso_model.out

\* C4 as stated: the snapshot is taken before any solve of the iteration, so
\* at the convergence check 'previous' holds the values the consensus store
\* had at the end of the preceding iteration.
C4_PreviousIsIterationStart ==
    admm_pc \in {"tso_check", "dso_check"} =>
        consensus_vars_prev_iter = iter_start_vars

\* C4 amended: the snapshot is taken inside each consensus update, after the
\* solve of the step and before its outputs are written, once after the TSO
\* solve and once after the DSO solves.  At the check after the TSO step
\* 'previous' holds the values of the end of the preceding iteration; at the
\* check after the DSO step only its .dso slots do, and its .tso slots equal
\* the current .tso slots, the TSO outputs of this iteration.
C4_SnapshotInsideUpdate ==
    /\ admm_pc = "tso_check" => consensus_vars_prev_iter = iter_start_vars
    /\ admm_pc = "dso_check" =>
        /\ consensus_vars_prev_iter.dso = iter_start_vars.dso
        /\ consensus_vars_prev_iter.tso = consensus_vars.tso
        /\ consensus_vars_prev_iter.tso = tso_model.out

\* a check after the DSO step at which 'previous' no longer holds the .tso
\* values of the end of the preceding iteration
C4_Witness ==
    /\ admm_pc = "dso_check"
    /\ consensus_vars_prev_iter.tso # iter_start_vars.tso
    /\ consensus_vars_prev_iter.dso # consensus_vars.dso

OtherRole(r) == IF r = "tso" THEN "dso" ELSE "tso"

\* rho[role] of the block quantity c belongs to
RhoOf(rho, r, n, c) ==
    IF c \in {"pf_p", "pf_q"}
    THEN IF r = "tso" THEN rho.pf.tso ELSE rho.pf.dso[n]
    ELSE IF r = "tso" THEN rho.ess.tso ELSE rho.ess.dso[n]

\* own value minus the other role's value, on the next state's store
NextResidual(r, n, t, c) ==
    consensus_vars'[r][n][t][c] - consensus_vars'[OtherRole(r)][n][t][c]

\* C5 as stated: every dual is incremented exactly once per iteration, the
\* TSO's duals after the TSO solve and before the DSO solves, the DSOs' duals
\* after the DSO solve, each by rho[role] times the residual of the values
\* just written.
C5_OncePerIteration ==
    [][/\ dual_vars'.tso # dual_vars.tso => admm_pc = "tso_update"
       /\ dual_vars'.dso # dual_vars.dso => admm_pc = "dso_update"
       /\ admm_pc = "tso_update" =>
            \A n \in Nodes, t \in Periods, c \in Quantities :
                dual_vars'.tso[n][t][c] = dual_vars.tso[n][t][c]
                    + RhoOf(params.rho, "tso", n, c) * NextResidual("tso", n, t, c)
       /\ admm_pc = "dso_update" =>
            \A n \in Nodes, t \in Periods, c \in Quantities :
                dual_vars'.dso[n][t][c] = dual_vars.dso[n][t][c]
                    + RhoOf(params.rho, "dso", n, c) * NextResidual("dso", n, t, c)
      ]_vars

\* C5 amended: the duals change only inside the consensus updates, and each
\* of the two updates of an iteration (after the TSO solve, after the DSO
\* solves) increments every dual of both roles by rho[role] times the
\* residual (own minus other) of the values just written, except the TSO's
\* dual of the interface active power, which is never incremented.
C5_EveryUpdateIncrementsAll ==
    [][/\ dual_vars' # dual_vars => admm_pc \in {"tso_update", "dso_update"}
       /\ admm_pc \in {"tso_update", "dso_update"} =>
            \A r \in Roles, n \in Nodes, t \in Periods, c \in Quantities :
                dual_vars'[r][n][t][c] = dual_vars[r][n][t][c]
                    + (IF r = "tso" /\ c = "pf_p" THEN 0
                       ELSE RhoOf(params.rho, r, n, c) * NextResidual(r, n, t, c))
      ]_vars

\* after the TSO-step update of the first iteration a DSO dual is already
\* non-zero while the TSO's interface active-power dual is not, although the
\* active powers differ
C5_Witness ==
    /\ admm_pc = "tso_check"
    /\ iter = 0
    /\ \E n \in Nodes, t \in Periods :
        /\ dual_vars.dso[n][t]["pf_p"] # 0
        /\ dual_vars.tso[n][t]["pf_p"] = 0

\* --------------------------------------------------------- claims: Benders
\* a step in which the master problem was solved: a lower bound is recorded
\* and the loop has not converged
MasterSolved ==
    /\ lower_bound_evolution' # lower_bound_evolution
    /\ ~benders_convergence'

CloseRelativeToLowerBound(ub, lb, p) ==
    \/ Abs(ub - lb) <= p.tol_abs * DaysPerYear
    \/ Abs(ub - lb) * p.tol_rel.den <= p.tol_rel.num * Abs(lb)

\* |UB - LB| <= tol_abs or |UB - LB| <= tol_rel * max(|UB|, |LB|)
CloseRelativeToLarger(ub, lb, p) ==
    \/ Abs(ub - lb) <= p.tol_abs * DaysPerYear
    \/ Abs(ub - lb) * p.tol_rel.den <= p.tol_rel.num * Abs(ub)
    \/ Abs(ub - lb) * p.tol_rel.den <= p.tol_rel.num * Abs(lb)

C8_LowerBoundNondecreasing ==
    [][lower_bound' >= lower_bound]_vars

\* C9: the cut list is append-only: no step removes or changes a cut, each
\* add_benders_cut call appends exactly one, and after the k-th master solve
\* the list holds exactly k cuts.
C9_CutsAppendOnly ==
    [][/\ Len(benders_cuts') >= Len(benders_cuts)
       /\ SubSeq(benders_cuts', 1, Len(benders_cuts)) = benders_cuts
       /\ benders_cuts' # benders_cuts =>
            /\ benders_pc = "add_cut"
            /\ Len(benders_cuts') = Len(benders_cuts) + 1
       /\ MasterSolved => Len(benders_cuts') = Len(lower_bound_evolution') - 1
      ]_vars

\* two different cuts are in the list after the second master solve
C9_Witness ==
    /\ benders_pc = "loop"
    /\ Len(benders_cuts) = 2
    /\ Len(lower_bound_evolution) = 3
    /\ benders_cuts[1] # benders_cuts[2]

\* C10: the cut appended for upper bound UB_k and candidate (s_hat, e_hat) is
\* alpha >= UB_k + sum over (e, y) of sigma_s * (s_rated - s_hat)
\* + sigma_e * (e_rated - e_hat), sigma the day-weighted sensitivities of the
\* subproblem; at s_rated = s_hat, e_rated = e_hat it reads alpha >= UB_k.
C10_CutAtCandidate ==
    benders_pc = "master" =>
        LET cut == benders_cuts[Len(benders_cuts)]
            cap == candidate_solution.total_capacity
            EY  == Nodes \X YearIdx(data)
            sigma(k, e, y) ==
                SumOver(DOMAIN data.days,
                        [day \in DOMAIN data.days |->
                            sensitivities[k][y][e] * data.days[day]])
        IN  /\ CutValue(data, cut, cap.s, cap.e) = upper_bound
            /\ \A x \in InvestmentGrid(data) :
                LET s_rated == RatedCapacity(data, x.s)
                    e_rated == RatedCapacity(data, x.e)
                IN  CutValue(data, cut, s_rated, e_rated) =
                        upper_bound
                        + SumOver(EY, [i \in EY |->
                              sigma("s", i[1], i[2]) * (s_rated[i[1]][i[2]] - cap.s[i[1]][i[2]])
                            + sigma("e", i[1], i[2]) * (e_rated[i[1]][i[2]] - cap.e[i[1]][i[2]])])

\* a cut with non-zero sensitivities around a candidate whose total capacity
\* differs from its investments
C10_Witness ==
    /\ benders_pc = "master"
    /\ sensitivities # NoSensitivities(data)
    /\ candidate_solution.total_capacity # candidate_solution.investment
    /\ \E e \in Nodes, y \in YearIdx(data) :
        /\ sensitivities["s"][y][e] # 0
        /\ candidate_solution.total_capacity.s[e][y]
               # candidate_solution.investment.s[e][y]

\* --------------------------------------------- claims: run-time failures
\* C18: building the augmented-Lagrangian objectives never divides by zero:
\* no divisor of an objective of the TSO or of a DSO (initial objective value,
\* initial interface active and reactive power, twice the SESS rating) is zero,
\* whatever the baseline solution
C18_NoZeroDivisor ==
    /\ ~DsoDividesByZero(divisors.dso)
    /\ ~TsoDividesByZero(divisors.tso)

\* C11: the ADMM loop performs at most num_max_iters iterations, the Benders
\* loop at most num_max_iters outer iterations, and neither run is left by an
\* exception
C11_BoundedAndReturns ==
    /\ iter + 1 <= params.num_max_iters
    /\ Len(upper_bound_evolution) - 1 <= benders_params.num_max_iters
    /\ admm_pc # "raised"
    /\ benders_pc # "raised"

\* ------------------------------------------------- claims: master problem
\* ceil(a / b) for a >= 0, b > 0
CeilDiv(a, b) == (a + b - 1) \div b

\* the ceil(t_cal / w_y) year indices from y on, within the horizon
CeilWindow(d, e, y) ==
    { x \in YearIdx(d) :
        y <= x /\ x < y + CeilDiv(d.t_cal[y][e], d.years[y].num_years) }

\* an investment's capacity summed over the windows W that contain year x
WindowedSum(d, W(_, _, _), inv, e, x) ==
    LET from == { y \in YearIdx(d) : x \in W(d, e, y) }
    IN  SumOver(from, [y \in from |-> inv[e][y]])

\* C12: the calendar-life window of an investment of year index y at site e is
\* the ceil(t_cal / w_y) year indices from y on, cut at the end of the horizon,
\* and the capacities of every candidate are the sums over these windows
C12_WindowIsCeil ==
    /\ \A e \in Nodes, y \in YearIdx(data) :
          Window(data, e, y) = CeilWindow(data, e, y)
    /\ \A e \in Nodes, x \in YearIdx(data), k \in {"s", "e"} :
          candidate_solution.total_capacity[k][e][x] =
              WindowedSum(data, CeilWindow, candidate_solution.investment[k], e, x)

\* t_cal = n * w_y for an integer n >= 1, at every site and year
ExactLife(d) ==
    \A e \in Nodes, y \in YearIdx(d) :
        d.t_cal[y][e] % d.years[y].num_years = 0 /\ d.t_cal[y][e] >= d.years[y].num_years

\* the year indices y, y + 1, ..., min(y + n - 1, last index)
LifeWindow(d, e, y) ==
    LET n == d.t_cal[y][e] \div d.years[y].num_years
    IN  { x \in YearIdx(d) : y <= x /\ x <= Min(y + n - 1, Len(d.years)) }

\* C13: when t_cal = n * w_y, an investment of year index y counts in the
\* rated capacities of the year indices y .. min(y + n - 1, last) and of no
\* other, and the rated capacity of a year is the sum of the investments whose
\* window contains it
C13_RatedCapacityAccounting ==
    ExactLife(data) =>
        /\ \A e \in Nodes, y \in YearIdx(data) :
              Window(data, e, y) = LifeWindow(data, e, y)
        /\ \A e \in Nodes, x \in YearIdx(data), k \in {"s", "e"} :
              candidate_solution.total_capacity[k][e][x] =
                  WindowedSum(data, LifeWindow, candidate_solution.investment[k], e, x)

\* the master has invested in the first of three years with a life of two
\* years: the capacity is installed in the first two years and gone in the third
C13_Witness ==
    /\ ExactLife(data)
    /\ Len(data.years) = 3
    /\ \E e \in Nodes :
        /\ data.t_cal[1][e] = 2 * data.years[1].num_years
        /\ candidate_solution.investment.s[e][1] > 0
        /\ candidate_solution.total_capacity.s[e][2] >= candidate_solution.investment.s[e][1]
        /\ candidate_solution.total_capacity.s[e][3] = 0

AllZero(c) ==
    \A k \in {"s", "e"}, e \in Nodes, y \in YearIdx(data) : c[k][e][y] = 0

\* C14: with budget = 0 every candidate, the initial one and every one of the
\* master, and the capacities installed for the operational planning, have
\* s = e = 0 for all sites and years
C14_ZeroBudgetZeroCandidate ==
    data.budget = 0 =>
        /\ AllZero(candidate_solution.investment)
        /\ AllZero(candidate_solution.total_capacity)
        /\ AllZero(shared_ess)

PositiveCosts(d) == \A y \in YearIdx(d) : d.cost_s[y] > 0 /\ d.cost_e[y] > 0

\* C14 (amended): the same, when every unit investment cost is positive
C14_ZeroBudgetPositiveCosts ==
    (data.budget = 0 /\ PositiveCosts(data)) =>
        /\ AllZero(candidate_solution.investment)
        /\ AllZero(candidate_solution.total_capacity)
        /\ AllZero(shared_ess)

\* a candidate of the master is being evaluated by the operational planning
C14_Witness ==
    /\ data.budget = 0 /\ PositiveCosts(data)
    /\ benders_pc = "subproblem"
    /\ Len(benders_cuts) >= 1
    /\ \E k \in DOMAIN benders_cuts, e \in Nodes, y \in YearIdx(data) :
          benders_cuts[k].sensitivity_s[e][y] < 0
    /\ AllZero(shared_ess)

\* ------------------------------------------- claims: penalties and failures
\* x > y for rationals with positive denominators
Greater(x, y) == x.num * y.den > y.num * x.den

\* a role's rho_pf and rho_ess each become their own value times
\* (1 + ADMM_ADAPTIVE_PENALTY_FACTOR), which is more than they were
GrowsFromItself(old, new) ==
    /\ new.pf = Increased(old.pf) /\ Greater(new.pf, old.pf)
    /\ new.ess = Increased(old.ess) /\ Greater(new.ess, old.ess)

\* C15: with adaptive_penalty, at every coordination solve of the TSO and of
\* every DSO both penalties fixed in the model, rho_pf and rho_ess, strictly
\* increase, each to its own previous value times
\* (1 + ADMM_ADAPTIVE_PENALTY_FACTOR), the first solve starting from the
\* configured rho.pf[role] and rho.ess[role]
C15_EachPenaltyGrowsFromItself ==
    [][ params.adaptive_penalty =>
          /\ (admm_pc = "tso_solve" /\ admm_pc' = "tso_update") =>
                /\ GrowsFromItself(penalties.tso, penalties'.tso)
                /\ iter = 0 => penalties.tso = ConfiguredPenalties(params.rho).tso
          /\ (admm_pc = "dso_solve" /\ admm_pc' = "dso_update") =>
                \A n \in Nodes :
                    /\ GrowsFromItself(penalties.dso[n], penalties'.dso[n])
                    /\ iter = 0 => penalties.dso[n] = ConfiguredPenalties(params.rho).dso[n]
      ]_vars

\* C16: when a coordination solve ended with status 'error', the ADMM run
\* (the one of the first outer iteration, where the error is its own) does not
\* end marked converged, and neither does the planning run
C16_ErrorMarksNotConverged ==
    error_logged =>
        /\ (admm_pc = "done" /\ Len(upper_bound_evolution) = 1) => ~convergence
        /\ benders_pc = "done" => ~benders_convergence

\* C17: when run_planning_problem has returned, by convergence or at the
\* iteration cap, the results of the last iterate were handed to the writer
C17_ResultsHandedToWriter ==
    benders_pc = "done" => results_written

\* ------------------------------------------------ claims: reading the files
\* C19: a data-file failure ends the program with exactly one diagnostic line
\* and with the exit code of that diagnostic: what an inner reader reported is
\* not reported again, under another code, by an enclosing handler
C19_OneDiagnosticOwnCode ==
    read_pc = "exited" =>
        /\ Len(diagnostics) = 1
        /\ exit_code = diagnostics[1].code

InvalidObjType == input_files.params.obj_type \notin {"COST", "CONGESTION_MANAGEMENT"}

\* C20: reading network parameters with an obj_type that is neither 'COST' nor
\* 'CONGESTION_MANAGEMENT' ends the program at once with ERROR_PARAMS_FILE,
\* leaves every field of the NetworkParameters object as it was, and no model
\* is built or solved afterwards
C20_InvalidObjTypeExits ==
    /\ [][ (read_pc = "network_params" /\ InvalidObjType) =>
              /\ read_pc' = "exited"
              /\ exit_code' = "ERROR_PARAMS_FILE"
              /\ network_params' = network_params
              /\ diagnostics' = diagnostics \o
                     << [line |-> "Invalid objective type. Exiting...",
                         code |-> "ERROR_PARAMS_FILE"] >> ]_vars
    /\ [][ read_pc = "exited" => UNCHANGED vars ]_vars
    /\ [](read_pc = "exited" =>
              admm_pc = "idle" /\ tso_model = NoModel /\ benders_pc = "none")

\* the program has exited on an invalid obj_type of a file that sets
\* relaxed_model, and the object still holds the values of its construction
C20_Witness ==
    /\ read_pc = "exited"
    /\ exit_code = "ERROR_PARAMS_FILE"
    /\ InvalidObjType
    /\ input_files.params.relaxed_model
    /\ network_params = DefaultNetworkParameters

\* C21: when read_parameters_from_file has returned, relaxed_model is the
\* value of the file; if it is True then ess_relax and fl_relax are True
\* whatever the file says for them, and if it is False they are the values of
\* the file
C21_RelaxedModelForcesRelaxations ==
    [][ (read_pc = "network_params" /\ read_pc' = "ess_data") =>
          LET file == input_files.params
              read == network_params'
          IN  /\ read.relaxed_model = file.relaxed_model
              /\ read.relaxed_model => (read.ess_relax /\ read.fl_relax)
              /\ ~read.relaxed_model =>
                    (read.ess_relax = file.ess_relax /\ read.fl_relax = file.fl_relax)
      ]_vars

\* the parameters were read from a file that sets relaxed_model and clears
\* both switches, and both switches are on
C21_Witness ==
    /\ read_pc = "ess_data"
    /\ input_files.params.relaxed_model
    /\ ~input_files.params.ess_relax
    /\ ~input_files.params.fl_relax
    /\ network_params.relaxed_model
    /\ network_params.ess_relax
    /\ network_params.fl_relax

\* --------------------------------------------------- claims: the DSO round
\* the DSOs solved one after the other in the order of the dictionary, each
\* fixed and then solved, followed by step 3.1
RECURSIVE SolvedInTurn(_, _, _, _)
SolvedInTurn(store, models, k, n) ==
    IF n > NumDsos THEN models
    ELSE LET f == RoundFixedInputs(store, models, n)
             fixed == [models[n] EXCEPT !.pc = "fixed", !.vmag = f.vmag,
                                        !.req = f.req, !.dual = f.dual]
             solved == [fixed EXCEPT !.pc = "solved", !.out = Optimize(k, fixed)]
         IN  SolvedInTurn(store, [models EXCEPT ![n] = solved], k, n + 1)

\* C22: whatever the order and interleaving of the DSO solves of a round, the
\* solve of DSO n fixes only the interface voltage, the .tso slots of n and
\* n's own duals, the slots and duals of the store are not written before
\* step 3.1, and after it the store, the duals and the models are those the
\* solves give when taken one after the other
C22_DsoSolvesIndependent ==
    /\ \A n \in Dsos : round_models[n].pc \in {"fixed", "solved"} =>
          /\ round_models[n].req = round_start.store.tso[n]
          /\ round_models[n].dual = round_start.store.dual_dso[n]
          /\ round_models[n].vmag = round_start.store.v[n]
    /\ round_pc = "solving" => round_store = round_start.store
    /\ round_pc = "updated" =>
          LET models == SolvedInTurn(round_start.store, round_start.models, round_solver, 1)
          IN  /\ round_models = models
              /\ round_store = RoundUpdated(round_start.store, models)

\* a round has ended in which the last DSO of the dictionary was solved
\* first, the DSOs were given different requests and returned different
\* solutions
C22_Witness ==
    /\ round_pc = "updated"
    /\ round_order[1] = NumDsos
    /\ round_start.store.tso[1] # round_start.store.tso[NumDsos]
    /\ round_store.dso[1] # round_store.dso[NumDsos]
    /\ round_store.dual_dso # round_start.store.dual_dso

\* ---------------------------------------------------- claims: ADMM, duals
\* "Update Lambdas" as a step: of the interface duals the TSO's q and the
\* DSOs' p and q are incremented, the TSO's p is left
InterfaceDualsIncremented ==
    \A n \in Nodes, t \in Periods :
        LET error_p_pf == consensus_vars'.tso[n][t]["pf_p"] - consensus_vars'.dso[n][t]["pf_p"]
            error_q_pf == consensus_vars'.tso[n][t]["pf_q"] - consensus_vars'.dso[n][t]["pf_q"]
        IN  /\ dual_vars'.tso[n][t]["pf_p"] = dual_vars.tso[n][t]["pf_p"]
            /\ dual_vars'.tso[n][t]["pf_q"] =
                  dual_vars.tso[n][t]["pf_q"] + params.rho.pf.tso * error_q_pf
            /\ dual_vars'.dso[n][t]["pf_p"] =
                  dual_vars.dso[n][t]["pf_p"] - params.rho.pf.dso[n] * error_p_pf
            /\ dual_vars'.dso[n][t]["pf_q"] =
                  dual_vars.dso[n][t]["pf_q"] - params.rho.pf.dso[n] * error_q_pf

\* C23: throughout an ADMM run the TSO's dual of the interface active power
\* is 0 in every slot, as create_admm_variables left it, so that every TSO
\* solve is given dual_pf_p = 0; of the interface duals a consensus update
\* increments the TSO's q and the DSOs' p and q, and leaves the TSO's p
C23_TsoActivePowerDualStaysZero ==
    /\ [](\A n \in Nodes, t \in Periods :
              /\ dual_vars.tso[n][t]["pf_p"] = 0
              /\ tso_model.dual[n][t]["pf_p"] = 0)
    /\ [][(admm_pc \in {"tso_update", "dso_update"}) => InterfaceDualsIncremented]_vars

\* the TSO was solved again after updates at which the interface powers of
\* the two roles differed: it was given an active-power dual of 0 and a
\* reactive-power dual that is not 0, while the DSO's active-power dual is
\* not 0 either
C23_Witness ==
    /\ admm_pc = "tso_update"
    /\ iter >= 1
    /\ tso_model.at = iter
    /\ \E n \in Nodes, t \in Periods :
          /\ tso_model.dual[n][t]["pf_p"] = 0
          /\ tso_model.dual[n][t]["pf_q"] # 0
          /\ dual_vars.dso[n][t]["pf_p"] # 0

\* C24: _update_previous_consensus_variables sets 'previous' to the current
\* value in every interface and shared-ESS slot of both roles, leaves the
\* current values and the duals as they are, and a second call with no write
\* in between leaves 'previous' as the first call made it
C24_SnapshotCopiesAndIsIdempotent ==
    [][ /\ (admm_pc \in {"snapshot", "snapshot_once"}) =>
              /\ \A r \in Roles, n \in Nodes, t \in Periods, c \in Quantities :
                    consensus_vars_prev_iter'[r][n][t][c] = consensus_vars[r][n][t][c]
              /\ consensus_vars' = consensus_vars
              /\ dual_vars' = dual_vars
        /\ (admm_pc = "snapshot_once") =>
              consensus_vars_prev_iter' = consensus_vars_prev_iter
      ]_vars

\* the operation ran twice on a store that is not zero and differs from the
\* 'previous' it began with, with a dual that is not zero
C24_Witness ==
    /\ admm_pc = "snapshot_twice"
    /\ consensus_vars.tso # ZeroField
    /\ consensus_vars.dso # ZeroField
    /\ iter_start_vars.tso # consensus_vars.tso
    /\ iter_start_vars.tso # ZeroField
    /\ consensus_vars_prev_iter = consensus_vars
    /\ dual_vars # ZeroStore

\* ------------------------------------------------ claims: ADMM, stopping
\* the stopping test on the store as it is
TestPasses == CheckAdmmConvergence(consensus_vars, consensus_vars_prev_iter, params)

\* what the step after a consensus update does with the stopping test
StoppingTestSteps ==
    /\ (admm_pc = "dso_check") =>
          /\ convergence' = TestPasses
          /\ TestPasses => (admm_pc' = "done" /\ iter' = iter)
    /\ (admm_pc = "tso_check" /\ iter > 1) =>
          /\ convergence' = TestPasses
          /\ admm_pc' = IF TestPasses THEN "done" ELSE "dso_solve"
    /\ (admm_pc = "tso_check" /\ iter <= 1) =>
          /\ convergence' = convergence
          /\ admm_pc' = "dso_solve"

\* C25: the stopping test is evaluated after the DSO step of every iteration,
\* the first included, and a run whose test passes there in the first
\* iteration has made one TSO solve and one round of DSO solves; after the
\* TSO step it is evaluated from the third iteration on only, and when it
\* passes there the DSOs are not solved in that iteration
C25_StoppingTestPlacement ==
    /\ [][StoppingTestSteps]_vars
    /\ []((admm_pc = "done" /\ convergence) =>
             /\ tso_model.at = iter
             /\ dso_models.at \in {iter, iter - 1}
             /\ dso_models.at = iter - 1 => iter > 1
             /\ iter = 0 => (tso_model.at = 0 /\ dso_models.at = 0))

\* the run stopped at the test after the TSO step of the third iteration:
\* the DSOs were last solved in the second
C25_Witness ==
    /\ admm_pc = "done"
    /\ convergence
    /\ iter = 2
    /\ tso_model.at = 2
    /\ dso_models.at = 1

\* C26: in every state of an ADMM run, for every slot and for each of the
\* shared-ESS active and reactive powers and the interface reactive power,
\* rho_dso * lambda.tso + rho_tso * lambda.dso = 0 with the configured
\* penalties of the two roles (so that with equal penalties the DSO's dual is
\* the negative of the TSO's)
C26_DualAntisymmetry ==
    \A n \in Nodes, t \in Periods, c \in {"ess_p", "ess_q", "pf_q"} :
          RhoOf(params.rho, "dso", n, c) * dual_vars.tso[n][t][c]
        + RhoOf(params.rho, "tso", n, c) * dual_vars.dso[n][t][c] = 0

\* in a later iteration the duals of a shared-ESS power and of the interface
\* reactive power are not zero on either side
C26_Witness ==
    /\ iter >= 1
    /\ \E n \in Nodes, t \in Periods :
          /\ dual_vars.tso[n][t]["pf_q"] # 0
          /\ dual_vars.dso[n][t]["pf_q"] # 0
          /\ \E c \in {"ess_p", "ess_q"} :
                dual_vars.tso[n][t][c] # 0 /\ dual_vars.dso[n][t][c] # 0

\* ------------------------------------------ claims: ADMM, stationary test
\* the addends of _stationary_convergence that belong to role r
RoleChanges(cv, pv, rho, r) ==
    SumOver(Index, [i \in Index |->
        SumOver(Quantities, [c \in Quantities |->
            RhoOf(rho, r, i[1], c)
                * Abs(Round(cv[r][i[1]][i[2]][c]) - Round(pv[r][i[1]][i[2]][c]))])])

\* C27: the snapshot being taken inside each consensus update, at the
\* convergence check after the DSO step every .tso value equals its
\* 'previous' value and the stationary residual is the sum of the
\* rho_dso-weighted changes of the .dso values alone; at the check after the
\* TSO step every .dso value equals its 'previous' value and the residual is
\* the sum of the rho_tso-weighted changes of the .tso values alone
C27_StationaryResidualOneSided ==
    /\ admm_pc = "dso_check" =>
          /\ \A n \in Nodes, t \in Periods, c \in Quantities :
                consensus_vars.tso[n][t][c] = consensus_vars_prev_iter.tso[n][t][c]
          /\ StationarySum(consensus_vars, consensus_vars_prev_iter, params.rho)
                = RoleChanges(consensus_vars, consensus_vars_prev_iter, params.rho, "dso")
    /\ admm_pc = "tso_check" =>
          /\ \A n \in Nodes, t \in Periods, c \in Quantities :
                consensus_vars.dso[n][t][c] = consensus_vars_prev_iter.dso[n][t][c]
          /\ StationarySum(consensus_vars, consensus_vars_prev_iter, params.rho)
                = RoleChanges(consensus_vars, consensus_vars_prev_iter, params.rho, "tso")

\* a check after the DSO step of an iteration in which both the TSO's and
\* the DSO's values changed: the residual is not zero, and the TSO's change
\* is not in it
C27_Witness ==
    /\ admm_pc = "dso_check"
    /\ iter >= 1
    /\ \E n \in Nodes, t \in Periods, c \in Quantities :
          Round(consensus_vars.tso[n][t][c]) # Round(iter_start_vars.tso[n][t][c])
    /\ RoleChanges(consensus_vars, consensus_vars_prev_iter, params.rho, "dso") > 0
    /\ RoleChanges(consensus_vars, consensus_vars_prev_iter, params.rho, "tso") = 0

\* --------------------------------------------- claims: ADMM, the penalties
\* a coordination solve with adaptive_penalty: rho_pf of the model grows by
\* the factor and rho_ess is set to the same value
PenaltiesGrow(old, new) ==
    /\ new.pf = Increased(old.pf)
    /\ Greater(new.pf, old.pf)
    /\ new.ess = new.pf

\* what the steps of an ADMM run do with the penalties
PenaltySteps ==
    /\ params' = params
    /\ (params.adaptive_penalty /\ admm_pc = "tso_solve") =>
          /\ PenaltiesGrow(penalties.tso, penalties'.tso)
          /\ penalties'.dso = penalties.dso
    /\ (params.adaptive_penalty /\ admm_pc = "dso_solve") =>
          /\ \A n \in Nodes : PenaltiesGrow(penalties.dso[n], penalties'.dso[n])
          /\ penalties'.tso = penalties.tso
    /\ (admm_pc \in {"tso_update", "dso_update"}) =>
          /\ penalties' = penalties
          /\ \A r \in Roles, n \in Nodes, t \in Periods, c \in Quantities \ {"pf_p"} :
                dual_vars'[r][n][t][c] = dual_vars[r][n][t][c]
                    + RhoOf(params.rho, r, n, c) * NextResidual(r, n, t, c)
    /\ (admm_pc = "dso_check") =>
          /\ penalties' = penalties
          /\ convergence' =
                /\ ConsensusConvergence(consensus_vars, params)
                /\ ToleranceRule(
                      RoleChanges(consensus_vars, consensus_vars_prev_iter, params.rho, "tso")
                    + RoleChanges(consensus_vars, consensus_vars_prev_iter, params.rho, "dso"),
                      NumElems, params.tol)

\* C28: the adaptive penalty changes only the rho_pf and rho_ess fixed in the
\* models.  params.rho is not modified by an ADMM run, the dual increments and
\* the weights of the stationary residual use it throughout, the penalty of a
\* model grows at each of its coordination solves, and from the first such
\* solve on rho_ess of a model equals its rho_pf whatever rho.ess is
\* configured
C28_AdaptivePenaltyOnlyInModels ==
    /\ [][PenaltySteps]_vars
    /\ []((params.adaptive_penalty /\ tso_model.at >= 0) =>
             /\ penalties.tso.ess = penalties.tso.pf
             /\ Greater(penalties.tso.pf, Rational(params.rho.pf.tso)))
    /\ []((params.adaptive_penalty /\ dso_models.at >= 0) =>
             \A n \in Nodes :
                 /\ penalties.dso[n].ess = penalties.dso[n].pf
                 /\ Greater(penalties.dso[n].pf, Rational(params.rho.pf.dso[n])))

\* with adaptive_penalty, in the second iteration: the TSO model's penalties
\* have grown twice and are equal although the configured ones differ, and
\* the duals have moved
C28_Witness ==
    /\ params.adaptive_penalty
    /\ admm_pc = "tso_check"
    /\ iter = 1
    /\ params.rho.pf.tso # params.rho.ess.tso
    /\ penalties.tso.pf = Increased(Increased(Rational(params.rho.pf.tso)))
    /\ penalties.tso.ess = penalties.tso.pf
    /\ dual_vars # ZeroStore

\* ------------------------------------------- claims: Benders, the last pass
\* the while-loop was left with convergence False: iter reached num_max_iters
ExitedAtCap == benders_pc = "done" /\ ~benders_convergence

\* run_operational_planning was called this many times
OperationalRuns == Len(upper_bound_evolution) - 1

\* the loop is left at the cap: nothing is evaluated on the way out
LeavesAtCap ==
    (benders_pc = "loop" /\ ~benders_convergence
        /\ benders_iter >= benders_params.num_max_iters) =>
            /\ benders_pc' = "done"
            /\ admm_pc' = "idle"
            /\ UNCHANGED <<candidate_solution, lower_bound, upper_bound, shared_ess,
                           lower_bound_evolution, upper_bound_evolution, benders_cuts>>

\* C29: when the Benders loop is left because iter reached num_max_iters,
\* the operational planning ran num_max_iters - 1 times (never more than
\* that in any state), once before each master solve, so the candidate of
\* the last master solve was not evaluated: UB is the cost of the candidate
\* installed at the last run, at which the last cut was built, LB and the
\* candidate are an optimum of the master with all the cuts; the two bound
\* histories have the same length; with num_max_iters = 1 nothing ran, no cut
\* was added and LB, UB are -/+ budget * 1000
C29_LastCandidateNotEvaluated ==
    /\ [][LeavesAtCap]_vars
    /\ [](OperationalRuns <= benders_params.num_max_iters - 1)
    /\ [](ExitedAtCap =>
            LET N == benders_params.num_max_iters
            IN  /\ benders_iter = N
                /\ OperationalRuns = N - 1
                /\ Len(benders_cuts) = N - 1
                /\ Len(lower_bound_evolution) = Len(upper_bound_evolution)
                /\ lower_bound = lower_bound_evolution[Len(lower_bound_evolution)]
                /\ upper_bound = upper_bound_evolution[Len(upper_bound_evolution)]
                /\ N = 1 =>
                      /\ benders_cuts = << >>
                      /\ lower_bound = -(data.budget * 1000) * DaysPerYear
                      /\ upper_bound = (data.budget * 1000) * DaysPerYear
                      /\ candidate_solution = GetInitialCandidateSolution(data)
                /\ N > 1 =>
                      /\ upper_bound = benders_cuts[N - 1].upper_bound
                      /\ benders_cuts[N - 1].s_hat = shared_ess.s
                      /\ benders_cuts[N - 1].e_hat = shared_ess.e
                      /\ \E x \in MasterOptima(data, benders_cuts) :
                            /\ candidate_solution = GetCandidateSolution(data, x)
                            /\ lower_bound = AlphaAt(data, benders_cuts, x))

\* the loop was left at the cap of 3 after two runs; the candidate of the
\* last master solve is not the one installed at the last run
C29_Witness ==
    /\ ExitedAtCap
    /\ benders_params.num_max_iters = MaxBendersIters
    /\ OperationalRuns = MaxBendersIters - 1
    /\ candidate_solution.total_capacity # shared_ess
    /\ lower_bound # -(data.budget * 1000) * DaysPerYear

\* ------------------------------------------ claims: without coordination
\* C30: in run_without_coordination every DSO is solved before the TSO, and
\* for every active node, scenario and instant t the TSO's interface
\* consumption pc, qc at t is fixed to that DSO's expected interface active,
\* reactive power flow at the same instant t
C30_TsoFixedToDsoFlowPerInstant ==
    /\ nc_tso_model.solved => Len(nc_dso_models) = NumDsos
    /\ nc_pc = "returned" =>
          \A n \in Dsos, s \in Scenarios, t \in Instants :
              /\ nc_tso_model.fixed[n][s][t].pc = nc_interface_pf[n][t].p
              /\ nc_tso_model.fixed[n][s][t].qc = nc_interface_pf[n][t].q

====
